---- MODULE Spec2Model ----
(***************************************************************************)
(* A model of the sales ETL pipeline and of the product repository:        *)
(* the transform stage (src/src/etl/transform.py: parse_date_flexible,     *)
(* clean_string, transform_ventas), the load stage (src/src/etl/load.py),  *)
(* the orchestrator (src/src/etl/pipeline.py) and ProductoRepository       *)
(* (src/src/db/repositories).                                              *)
(*                                                                         *)
(* Text is a tuple of one-character strings, so that trimming, splitting   *)
(* and parsing are computed character by character.  A DataFrame is a      *)
(* sequence of rows; a row's index label is its position in the input      *)
(* batch (pandas' RangeIndex, counted from 1 here).  Missing cells (NaN /  *)
(* None) are the value NULL, and a failed numeric coercion is NaN.         *)
(***************************************************************************)
EXTENDS Integers, Sequences, FiniteSets, TLC

VARIABLES
    pc,             \* position of the transform_ventas call
    df,             \* the input batch handed to transform_ventas
    productos_map,  \* the product map handed to transform_ventas
    result,         \* what the transform_ventas call produced
    dpc,            \* position of the parse_date_flexible call
    date_str,       \* the argument of parse_date_flexible
    date_result,    \* what parse_date_flexible returned
    cpc,            \* position of the clean_string call
    clean_value,    \* the argument of clean_string
    clean_result,   \* what clean_string returned
    lpc,            \* position of the load_to_supabase call
    load_df,        \* the DataFrame handed to load_to_supabase
    batch_size,     \* the batch size handed to load_to_supabase
    load_call,      \* what the load_to_supabase call did and produced
    ppc,            \* position of the run_pipeline call
    input_file,     \* the CSV file run_pipeline is pointed at
    dry_run,        \* the dry_run argument of run_pipeline
    supabase,       \* the backend: whether it answers, and its productos table
    calls,          \* the stage functions run_pipeline has invoked, in order
    extraction,     \* run_pipeline's local extraction
    productos_result,   \* run_pipeline's local productos_result
    transformation, \* run_pipeline's local transformation
    load_result,    \* run_pipeline's local load_result
    pipeline_result,    \* what run_pipeline returned or raised
    productos,      \* the backend's productos table, by product id
    stock_at_start, \* the stock of product 1 before two concurrent adjustments
    rpc,            \* position of each repository client
    pending,        \* locals of each client's ajustar_stock call in progress
    returned        \* each client's last completed repository call

transformVars == <<pc, df, productos_map, result>>

dateVars == <<dpc, date_str, date_result>>

cleanVars == <<cpc, clean_value, clean_result>>

loadVars == <<lpc, load_df, batch_size, load_call>>

pipelineVars ==
    <<ppc, input_file, dry_run, supabase, calls, extraction, productos_result,
      transformation, load_result, pipeline_result>>

repositoryVars == <<productos, stock_at_start, rpc, pending, returned>>

vars ==
    <<transformVars, dateVars, cleanVars, loadVars, pipelineVars,
      repositoryVars>>

\* A missing text cell (NaN / None in a column of text).
NULL == <<"NULL">>

\* pandas' NaT / Python's None where a date was expected: no date has year 0.
NaT == [year |-> 0, month |-> 0, day |-> 0]

\* A number is a decimal m * 10^(-s) in lowest terms (s >= 0); NaN is apart.
NaN == [m |-> 0, s |-> 0 - 1]

(***************************************************************************)
(* Text helpers: str.strip, str.split, " ".join, str.lower                 *)
(***************************************************************************)
Whitespace == {" ", "\t"}

Digits == {"0", "1", "2", "3", "4", "5", "6", "7", "8", "9"}

DigitVal(c) ==
    CASE c = "0" -> 0 [] c = "1" -> 1 [] c = "2" -> 2 [] c = "3" -> 3
      [] c = "4" -> 4 [] c = "5" -> 5 [] c = "6" -> 6 [] c = "7" -> 7
      [] c = "8" -> 8 [] c = "9" -> 9

RECURSIVE LStrip(_)
LStrip(s) ==
    IF s # <<>> /\ Head(s) \in Whitespace THEN LStrip(Tail(s)) ELSE s

RECURSIVE RStrip(_)
RStrip(s) ==
    IF s # <<>> /\ s[Len(s)] \in Whitespace
    THEN RStrip(SubSeq(s, 1, Len(s) - 1))
    ELSE s

Strip(s) == RStrip(LStrip(s))

LowerChar(c) ==
    CASE c = "A" -> "a" [] c = "B" -> "b" [] c = "C" -> "c" [] c = "D" -> "d"
      [] c = "E" -> "e" [] c = "F" -> "f" [] c = "G" -> "g" [] c = "H" -> "h"
      [] c = "I" -> "i" [] c = "J" -> "j" [] c = "K" -> "k" [] c = "L" -> "l"
      [] c = "M" -> "m" [] c = "N" -> "n" [] c = "O" -> "o" [] c = "P" -> "p"
      [] c = "Q" -> "q" [] c = "R" -> "r" [] c = "S" -> "s" [] c = "T" -> "t"
      [] c = "U" -> "u" [] c = "V" -> "v" [] c = "W" -> "w" [] c = "X" -> "x"
      [] c = "Y" -> "y" [] c = "Z" -> "z"
      [] OTHER -> c

Lower(s) == [i \in 1..Len(s) |-> LowerChar(s[i])]

\* str.split(): the maximal runs of non-whitespace characters, in order.
RECURSIVE Split(_)
Split(s) ==
    LET t == LStrip(s) IN
    IF t = <<>> THEN <<>>
    ELSE LET ends == {k \in 1..Len(t) : t[k] \in Whitespace}
             stop == IF ends = {} THEN Len(t) + 1
                     ELSE CHOOSE k \in ends : \A j \in ends : k <= j
         IN <<SubSeq(t, 1, stop - 1)>> \o Split(SubSeq(t, stop, Len(t)))

\* " ".join(words)
RECURSIVE JoinSpace(_)
JoinSpace(words) ==
    IF words = <<>> THEN <<>>
    ELSE IF Len(words) = 1 THEN words[1]
    ELSE words[1] \o <<" ">> \o JoinSpace(Tail(words))

\* clean_string without split and join: only the ends are trimmed.
clean_string_strip_only(value) ==
    IF value = NULL THEN <<>>
    ELSE Strip(value)

clean_string(value) ==
    IF value = NULL THEN <<>>
    ELSE JoinSpace(Split(Strip(value)))

(***************************************************************************)
(* datetime.strptime for the directives %Y, %m, %d and literal separators. *)
(* strptime compiles the format to a regular expression, matches it at the *)
(* start of the string, rejects unconverted trailing data, and then builds *)
(* the date, which rejects a day the month does not have.  Every case of   *)
(* failure is a ValueError, modelled as the result NaT.                    *)
(*   %Y  \d\d\d\d                                                          *)
(*   %m  1[0-2]|0[1-9]|[1-9]                                               *)
(*   %d  3[01]|[12]\d|0[1-9]|[1-9]| [1-9]                                  *)
(* A directive is followed by a separator or by the end of the pattern, so *)
(* the first alternative that matches is the only one that can lead to a   *)
(* match of the whole pattern: no backtracking is needed.                  *)
(***************************************************************************)
NoMatch == [ok |-> FALSE, val |-> 0, next |-> 0]

Matched(v, n) == [ok |-> TRUE, val |-> v, next |-> n]

Has(s, i) == i >= 1 /\ i <= Len(s)

MatchYear(s, i) ==
    IF Has(s, i + 3) /\ \A k \in i..(i + 3) : s[k] \in Digits
    THEN Matched(1000 * DigitVal(s[i]) + 100 * DigitVal(s[i + 1])
                 + 10 * DigitVal(s[i + 2]) + DigitVal(s[i + 3]), i + 4)
    ELSE NoMatch

MatchMonth(s, i) ==
    IF Has(s, i + 1) /\ s[i] = "1" /\ s[i + 1] \in {"0", "1", "2"}
    THEN Matched(10 + DigitVal(s[i + 1]), i + 2)
    ELSE IF Has(s, i + 1) /\ s[i] = "0" /\ s[i + 1] \in Digits \ {"0"}
    THEN Matched(DigitVal(s[i + 1]), i + 2)
    ELSE IF Has(s, i) /\ s[i] \in Digits \ {"0"}
    THEN Matched(DigitVal(s[i]), i + 1)
    ELSE NoMatch

MatchDay(s, i) ==
    IF Has(s, i + 1) /\ s[i] = "3" /\ s[i + 1] \in {"0", "1"}
    THEN Matched(30 + DigitVal(s[i + 1]), i + 2)
    ELSE IF Has(s, i + 1) /\ s[i] \in {"1", "2"} /\ s[i + 1] \in Digits
    THEN Matched(10 * DigitVal(s[i]) + DigitVal(s[i + 1]), i + 2)
    ELSE IF Has(s, i + 1) /\ s[i] = "0" /\ s[i + 1] \in Digits \ {"0"}
    THEN Matched(DigitVal(s[i + 1]), i + 2)
    ELSE IF Has(s, i) /\ s[i] \in Digits \ {"0"}
    THEN Matched(DigitVal(s[i]), i + 1)
    ELSE IF Has(s, i + 1) /\ s[i] = " " /\ s[i + 1] \in Digits \ {"0"}
    THEN Matched(DigitVal(s[i + 1]), i + 2)
    ELSE NoMatch

MatchLiteral(s, i, c) ==
    IF Has(s, i) /\ s[i] = c THEN Matched(0, i + 1) ELSE NoMatch

MatchDirective(s, i, d) ==
    CASE d = "%Y" -> MatchYear(s, i)
      [] d = "%m" -> MatchMonth(s, i)
      [] d = "%d" -> MatchDay(s, i)
      [] OTHER -> MatchLiteral(s, i, d)

IsLeap(y) == (y % 4 = 0 /\ y % 100 # 0) \/ y % 400 = 0

DaysInMonth(y, m) ==
    IF m = 2 THEN (IF IsLeap(y) THEN 29 ELSE 28)
    ELSE IF m \in {4, 6, 9, 11} THEN 30 ELSE 31

\* datetime(year, month, day): MINYEAR is 1.
ValidDate(y, m, d) ==
    y >= 1 /\ m \in 1..12 /\ d >= 1 /\ d <= DaysInMonth(y, m)

\* The compiled pattern matched from position i on: fmt is a sequence of
\* directives and literal characters, got collects the values of the
\* directives matched so far.  The result is NaT when the pattern does not
\* match, when text remains after it, and when the date does not exist.
RECURSIVE MatchFrom(_, _, _, _)
MatchFrom(s, i, fmt, got) ==
    IF fmt = <<>>
    THEN IF i = Len(s) + 1 /\ ValidDate(got.year, got.month, got.day)
         THEN got
         ELSE NaT
    ELSE LET r == MatchDirective(s, i, Head(fmt))
         IN IF ~r.ok THEN NaT
            ELSE MatchFrom(s, r.next, Tail(fmt),
                           CASE Head(fmt) = "%Y" -> [got EXCEPT !.year = r.val]
                             [] Head(fmt) = "%m" -> [got EXCEPT !.month = r.val]
                             [] Head(fmt) = "%d" -> [got EXCEPT !.day = r.val]
                             [] OTHER -> got)

strptime(s, fmt) == MatchFrom(s, 1, fmt, NaT)

\* The list with the month-first slash format ahead of the day-first one.
formats_month_first ==
    << <<"%Y", "-", "%m", "-", "%d">>,
       <<"%m", "/", "%d", "/", "%Y">>,
       <<"%d", "/", "%m", "/", "%Y">>,
       <<"%d", "-", "%m", "-", "%Y">>,
       <<"%m", "-", "%d", "-", "%Y">>,
       <<"%Y", "/", "%m", "/", "%d">> >>

formats ==
    << <<"%Y", "-", "%m", "-", "%d">>,
       <<"%d", "/", "%m", "/", "%Y">>,
       <<"%m", "/", "%d", "/", "%Y">>,
       <<"%d", "-", "%m", "-", "%Y">>,
       <<"%m", "-", "%d", "-", "%Y">>,
       <<"%Y", "/", "%m", "/", "%d">> >>

\* The loop over formats, from format number k on.
RECURSIVE TryFormats(_, _)
TryFormats(s, k) ==
    IF k > Len(formats) THEN NaT
    ELSE LET r == strptime(Strip(s), formats[k])
         IN IF r # NaT THEN r ELSE TryFormats(s, k + 1)

parse_date_flexible(s) ==
    IF s = NULL \/ s = <<>> THEN NaT
    ELSE TryFormats(s, 1)

(***************************************************************************)
(* pd.to_numeric(errors='coerce') on one cell: an optional sign, digits    *)
(* with an optional decimal point; anything else that is no number, and a  *)
(* missing cell, become NaN.  The value is kept as an exact decimal, so    *)
(* that "2" and "2.0" are the same number.                                 *)
(***************************************************************************)
RECURSIVE Normalize(_)
Normalize(x) ==
    IF x.m = 0 THEN [m |-> 0, s |-> 0]
    ELSE IF x.s > 0 /\ x.m % 10 = 0 THEN Normalize([m |-> x.m \div 10, s |-> x.s - 1])
    ELSE x

RECURSIVE DigitsValue(_)
DigitsValue(s) ==
    IF s = <<>> THEN 0
    ELSE 10 * DigitsValue(SubSeq(s, 1, Len(s) - 1)) + DigitVal(s[Len(s)])

to_numeric(cell) ==
    IF cell = NULL \/ cell = <<>> THEN NaN
    ELSE LET signed == cell[1] \in {"-", "+"}
             body == IF signed THEN Tail(cell) ELSE cell
             points == {k \in 1..Len(body) : body[k] = "."}
             point == IF points = {} THEN Len(body) + 1
                      ELSE CHOOSE k \in points : \A j \in points : k <= j
             whole == SubSeq(body, 1, point - 1)
             frac == SubSeq(body, point + 1, Len(body))
             digits == whole \o frac
             mag == DigitsValue(digits)
         IN IF digits # <<>> /\ \A k \in 1..Len(digits) : digits[k] \in Digits
            THEN Normalize([m |-> IF cell[1] = "-" THEN 0 - mag ELSE mag,
                            s |-> Len(frac)])
            ELSE NaN

isna_number(x) == x = NaN

\* x <= 0 on a column of numbers: False for NaN.
le_zero(x) == x # NaN /\ x.m <= 0

\* The product of two cells of numeric columns: NaN if either is.
multiply(x, y) ==
    IF x = NaN \/ y = NaN THEN NaN
    ELSE Normalize([m |-> x.m * y.m, s |-> x.s + y.s])

\* Timestamp.strftime('%Y-%m-%d'): zero-padded year, month and day.
DigitChar(n) ==
    CASE n = 0 -> "0" [] n = 1 -> "1" [] n = 2 -> "2" [] n = 3 -> "3"
      [] n = 4 -> "4" [] n = 5 -> "5" [] n = 6 -> "6" [] n = 7 -> "7"
      [] n = 8 -> "8" [] n = 9 -> "9"

\* The date rendered day before month ('%Y-%d-%m').
strftime_day_first(d) ==
    <<DigitChar(d.year \div 1000), DigitChar((d.year \div 100) % 10),
      DigitChar((d.year \div 10) % 10), DigitChar(d.year % 10), "-",
      DigitChar(d.day \div 10), DigitChar(d.day % 10), "-",
      DigitChar(d.month \div 10), DigitChar(d.month % 10)>>

strftime(d) ==
    << DigitChar(d.year \div 1000), DigitChar((d.year \div 100) % 10),
       DigitChar((d.year \div 10) % 10), DigitChar(d.year % 10), "-",
       DigitChar(d.month \div 10), DigitChar(d.month % 10), "-",
       DigitChar(d.day \div 10), DigitChar(d.day % 10) >>

(***************************************************************************)
(* transform_ventas.  The batch df is None or a frame of raw rows; the     *)
(* product map is a dict, kept as the sequence of its (name, id) items in  *)
(* insertion order.  Identifiers are positive; NoId is None / NaN in the   *)
(* producto_id column.                                                     *)
(***************************************************************************)
NoneFrame == [is_none |-> TRUE, rows |-> <<>>]

Frame(rows) == [is_none |-> FALSE, rows |-> rows]

NoId == 0

\* productos_map_lower = {k.lower().strip(): v for k, v in productos_map.items()}
\* followed by .get(nombre_norm): the last item whose normalised key is the name.
RECURSIVE LookupLower(_, _)
LookupLower(items, nombre_norm) ==
    IF items = <<>> THEN NoId
    ELSE LET last == items[Len(items)]
         IN IF Strip(Lower(last[1])) = nombre_norm THEN last[2]
            ELSE LookupLower(SubSeq(items, 1, Len(items) - 1), nombre_norm)

map_producto(nombre, pmap) ==
    IF nombre = NULL THEN NoId
    ELSE LookupLower(pmap, Strip(Lower(nombre)))

\* Steps 1-5 on the row with index label i: the columns of df_work.
WorkRow(i, raw, pmap) ==
    [index |-> i,
     fecha |-> raw.fecha,
     producto |-> clean_string(raw.producto),
     tienda |-> clean_string(raw.tienda),
     vendedor |-> clean_string(raw.vendedor),
     fecha_parsed |-> parse_date_flexible(raw.fecha),
     cantidad |-> to_numeric(raw.cantidad),
     precio_unitario |-> to_numeric(raw.precio_unitario),
     producto_id |-> map_producto(clean_string(raw.producto), pmap)]

df_work(d, pmap) == [i \in 1..Len(d.rows) |-> WorkRow(i, d.rows[i], pmap)]

mask_fecha_invalida(w) == w.fecha_parsed = NaT

\* The mask with < 0 in place of <= 0.
mask_cantidad_invalida_lt_zero(w) ==
    isna_number(w.cantidad) \/ (w.cantidad # NaN /\ w.cantidad.m < 0)

mask_cantidad_invalida(w) == isna_number(w.cantidad) \/ le_zero(w.cantidad)

\* The price mask looked at only for rows whose quantity passed.
mask_precio_invalido_after_cantidad(w) ==
    /\ ~mask_cantidad_invalida(w)
    /\ (isna_number(w.precio_unitario) \/ le_zero(w.precio_unitario))

mask_precio_invalido(w) ==
    isna_number(w.precio_unitario) \/ le_zero(w.precio_unitario)

mask_producto_no_encontrado(w) == w.producto_id = NoId

\* frame[mask].index.tolist(), hit being frame[mask].
IndexList(hit) == [k \in 1..Len(hit) |-> hit[k].index]

\* The list rejected_rows after steps 2, 4 and 5 (an index once per rule failed).
rejected_rows(work) ==
    IndexList(SelectSeq(work, mask_fecha_invalida))
        \o IndexList(SelectSeq(work, mask_cantidad_invalida))
        \o IndexList(SelectSeq(work, mask_precio_invalido))
        \o IndexList(SelectSeq(work, mask_producto_no_encontrado))

\* all_rejected = list(set(rejected_rows))
all_rejected(work) ==
    LET rr == rejected_rows(work) IN {rr[k] : k \in 1..Len(rr)}

\* The key with the parsed date in place of the date text.
cols_dedup_parsed_date(w) ==
    <<w.fecha_parsed, w.producto, w.cantidad, w.precio_unitario, w.tienda>>

\* cols_dedup, read from df_work: fecha is still the input text, cantidad and
\* precio_unitario are the coerced numbers, producto and tienda are cleaned.
cols_dedup(w) == <<w.fecha, w.producto, w.cantidad, w.precio_unitario, w.tienda>>

\* DataFrame.drop_duplicates(subset=cols_dedup, keep='first'): a scan in row
\* order that drops a row whose key was seen before.  NaN equals NaN here.
RECURSIVE DropSeen(_, _)
DropSeen(rest, seen) ==
    IF rest = <<>> THEN <<>>
    ELSE LET key == cols_dedup(Head(rest))
         IN IF key \in seen THEN DropSeen(Tail(rest), seen)
            ELSE <<Head(rest)>> \o DropSeen(Tail(rest), seen \cup {key})

\* keep='last': the scan run from the last row to the first.
RECURSIVE DropSeenBackwards(_, _)
DropSeenBackwards(rest, seen) ==
    IF rest = <<>> THEN <<>>
    ELSE LET w == rest[Len(rest)]
             front == SubSeq(rest, 1, Len(rest) - 1)
         IN IF cols_dedup(w) \in seen THEN DropSeenBackwards(front, seen)
            ELSE DropSeenBackwards(front, seen \cup {cols_dedup(w)}) \o <<w>>

drop_duplicates_keep_last(work) == DropSeenBackwards(work, {})

\* Deduplication of the unmarked rows only: a row marked by a rule is neither
\* dropped nor remembered.
RECURSIVE DropSeenUnmarked(_, _, _)
DropSeenUnmarked(rest, seen, marked) ==
    IF rest = <<>> THEN <<>>
    ELSE LET w == Head(rest)
         IN IF w.index \in marked
            THEN <<w>> \o DropSeenUnmarked(Tail(rest), seen, marked)
            ELSE IF cols_dedup(w) \in seen
                 THEN DropSeenUnmarked(Tail(rest), seen, marked)
                 ELSE <<w>> \o DropSeenUnmarked(Tail(rest),
                                                seen \cup {cols_dedup(w)}, marked)

drop_duplicates_unmarked(work) == DropSeenUnmarked(work, {}, all_rejected(work))

drop_duplicates(work) == DropSeen(work, {})

\* The rejected rows taken from the batch after step 1, with cleaned text.
df_rejected_cleaned(d, work) ==
    LET labelled == [i \in 1..Len(d.rows) |->
                        [index |-> i,
                         row |-> [d.rows[i] EXCEPT
                                     !.producto = clean_string(@),
                                     !.tienda = clean_string(@),
                                     !.vendedor = clean_string(@)]]]
        Rejected(r) == r.index \in all_rejected(work)
    IN SelectSeq(labelled, Rejected)

\* df.loc[df.index.isin(all_rejected)]: rows of the ORIGINAL batch.
df_rejected(d, work) ==
    LET labelled == [i \in 1..Len(d.rows) |-> [index |-> i, row |-> d.rows[i]]]
        Rejected(r) == r.index \in all_rejected(work)
    IN SelectSeq(labelled, Rejected)

\* df_work.loc[~df_work.index.isin(all_rejected)], df_work being deduplicated.
df_clean(work) ==
    LET Kept(w) == w.index \notin all_rejected(work)
    IN SelectSeq(drop_duplicates(work), Kept)

\* The total without the quantity.
total_unit_price(w) == w.precio_unitario

total(w) == multiply(w.cantidad, w.precio_unitario)

\* Steps 8-10 on one row of df_clean.
OutputRow(w) ==
    [index |-> w.index,
     fecha |-> strftime(w.fecha_parsed),
     producto_id |-> w.producto_id,
     cantidad |-> w.cantidad,
     precio_unitario |-> w.precio_unitario,
     total |-> total(w),
     tienda |-> w.tienda,
     vendedor |-> w.vendedor]

df_output(work) ==
    LET clean == df_clean(work) IN [k \in 1..Len(clean) |-> OutputRow(clean[k])]

stats(work) ==
    [fechas_invalidas |-> Len(SelectSeq(work, mask_fecha_invalida)),
     cantidades_invalidas |-> Len(SelectSeq(work, mask_cantidad_invalida)),
     precios_invalidos |-> Len(SelectSeq(work, mask_precio_invalido)),
     productos_no_mapeados |-> Len(SelectSeq(work, mask_producto_no_encontrado)),
     duplicados_eliminados |-> Len(work) - Len(drop_duplicates(work))]

NoStats ==
    [fechas_invalidas |-> 0, cantidades_invalidas |-> 0, precios_invalidos |-> 0,
     productos_no_mapeados |-> 0, duplicados_eliminados |-> 0]

\* A TransformResult, or the exception the call ended with (raised # "None").
\* data and rejected_data are <<>> both for None and for an empty frame;
\* has_data tells them apart.
NoResult ==
    [raised |-> "None", succes |-> FALSE, has_data |-> FALSE, data |-> <<>>,
     rows_input |-> 0, rows_output |-> 0, rows_rejected |-> 0,
     rejected_data |-> <<>>, stats |-> NoStats, error |-> "None"]

Raised(exception) == [NoResult EXCEPT !.raised = exception]

\* dataclass TransformResult: the field is named succes, and __init__ accepts
\* no other keyword.
TransformResult(keyword, flag, fields) ==
    IF keyword # "succes" THEN Raised("TypeError")
    ELSE [fields EXCEPT !.succes = flag]

\* Series.dt on the column fecha_parsed: apply() gives a datetime64 column as
\* soon as one value is a date, and a column of dtype object when every value
\* is None; .dt on an object column raises AttributeError.
dt_accessor_fails(work) == \A k \in 1..Len(work) : work[k].fecha_parsed = NaT

\* The batch after a call that works on df itself instead of a copy: step 1
\* overwrites the text columns of the caller's frame.
df_after_call_in_place(d) ==
    IF d.is_none THEN d
    ELSE Frame([i \in 1..Len(d.rows) |->
                   [d.rows[i] EXCEPT !.producto = clean_string(@),
                                     !.tienda = clean_string(@),
                                     !.vendedor = clean_string(@)]])

\* The batch after a call that drops the duplicates from df itself.
df_after_call_deduplicated(d) ==
    IF d.is_none THEN d
    ELSE LET kept == drop_duplicates(df_work(d, <<>>))
         IN Frame([k \in 1..Len(kept) |-> d.rows[kept[k].index]])

\* The caller's batch after the call.  Every write of transform_ventas goes to
\* df_work, a copy (df.copy()), or to frames derived from it; df itself is only
\* read (df.empty, len(df), df.loc[...]).
df_after_call(d) == d

\* The caller's product map after the call: it is only read, to build the new
\* dict productos_map_lower.
productos_map_after_call(pmap) == pmap

transform_ventas(d, pmap) ==
    IF d.is_none \/ d.rows = <<>>
    THEN TransformResult("success", FALSE,
                         [NoResult EXCEPT !.error = "DataFrame vacio o nulo"])
    ELSE LET work == df_work(d, pmap)
             rejected == df_rejected(d, work)
             output == df_output(work)
         IN IF dt_accessor_fails(work) THEN Raised("AttributeError")
            ELSE TransformResult("succes", TRUE,
                    [NoResult EXCEPT !.has_data = TRUE,
                                     !.data = output,
                                     !.rows_input = Len(d.rows),
                                     !.rows_output = Len(output),
                                     !.rows_rejected = Len(rejected),
                                     !.rejected_data = rejected,
                                     !.stats = stats(work)])

(***************************************************************************)
(* The inputs of one call of transform_ventas(df, productos_map).  A batch *)
(* is None, empty, or up to MaxRows rows.  Two pools of rows are used.     *)
(*                                                                         *)
(* RuleRows exercises the four rules: a date that parses and one that no   *)
(* format parses; a product written with padding and another product; a    *)
(* quantity that is positive, zero, or no number; a price that is positive *)
(* or negative.  Under the first product map only the first product is     *)
(* known, under the second both are.                                       *)
(*                                                                         *)
(* KeyRows exercises the deduplication key: one day written in two         *)
(* formats; one product and one store written with and without padding;    *)
(* a quantity written as 2 and as 2.0, and a zero quantity.                *)
(***************************************************************************)
MaxRows == 2

RuleRows ==
    [fecha : {<<"2", "0", "2", "4", "-", "0", "1", "-", "1", "5">>, <<"2", "0", "2", "4", "-", "1", "3", "-", "4", "5">>},
     producto : {<<" ", "A", "b", " ">>, <<"X">>},
     cantidad : {<<"2">>, <<"0">>, <<"a", "b", "c">>},
     precio_unitario : {<<"2", ".", "5">>, <<"-", "1">>},
     tienda : {<<"T">>},
     vendedor : {<<"V">>}]

RuleMaps ==
    { << <<<<"a", "b">>, 7>> >>,
      << <<<<" ", "A", "B", " ">>, 7>>, <<<<"X">>, 9>> >> }

KeyRows ==
    [fecha : {<<"2", "0", "2", "4", "-", "0", "1", "-", "1", "5">>, <<"1", "5", "/", "0", "1", "/", "2", "0", "2", "4">>},
     producto : {<<"A", "b">>, <<" ", "A", "b", " ">>},
     cantidad : {<<"2">>, <<"2", ".", "0">>, <<"0">>},
     precio_unitario : {<<"5">>},
     tienda : {<<"T">>, <<" ", "T">>},
     vendedor : {<<"V">>}]

KeyMaps ==
    { << <<<<"a", "b">>, 7>> >> }

(***************************************************************************)
(* load_to_supabase (src/src/etl/load.py).  The records of the frame are   *)
(* sent to the backend in batches; failing is the set of batch numbers     *)
(* whose request raises.  The outcome of a call is what it returned or     *)
(* raised together with the requests it made, in order.                    *)
(***************************************************************************)
\* dataclass LoadResult
LoadResult(success, loaded, failed, error) ==
    [success |-> success, rows_loaded |-> loaded, rows_failed |-> failed,
     error |-> error]

NoLoadResult == LoadResult(FALSE, 0, 0, "None")

NoLoadCall == [raised |-> "None", result |-> NoLoadResult, requests |-> <<>>]

\* records[i:i + batch_size], i counted from 0
batch_of(records, i, size) ==
    SubSeq(records, i + 1,
           IF i + size < Len(records) THEN i + size ELSE Len(records))

\* The loop when it gives up at the first request that raises.
RECURSIVE load_batches_until_failure(_, _, _, _, _)
load_batches_until_failure(records, size, failing, i, acc) ==
    IF i >= Len(records) THEN acc
    ELSE LET batch == batch_of(records, i, size)
             batch_num == (i \div size) + 1
             ok == batch_num \notin failing
         IN IF ok
            THEN load_batches_until_failure(records, size, failing, i + size,
                    [rows_loaded |-> acc.rows_loaded + Len(batch),
                     rows_failed |-> acc.rows_failed,
                     requests |-> Append(acc.requests, [batch |-> batch, ok |-> ok])])
            ELSE [rows_loaded |-> acc.rows_loaded,
                  rows_failed |-> acc.rows_failed + Len(batch),
                  requests |-> Append(acc.requests, [batch |-> batch, ok |-> ok])]

\* The loop over range(0, len(records), batch_size), from offset i on.
RECURSIVE load_batches(_, _, _, _, _)
load_batches(records, size, failing, i, acc) ==
    IF i >= Len(records) THEN acc
    ELSE LET batch == batch_of(records, i, size)
             batch_num == (i \div size) + 1
             ok == batch_num \notin failing
         IN load_batches(records, size, failing, i + size,
                [rows_loaded |-> acc.rows_loaded + (IF ok THEN Len(batch) ELSE 0),
                 rows_failed |-> acc.rows_failed + (IF ok THEN 0 ELSE Len(batch)),
                 requests |-> Append(acc.requests, [batch |-> batch, ok |-> ok])])

load_to_supabase(d, size, client_ok, failing) ==
    IF d.is_none \/ d.rows = <<>>
    THEN [NoLoadCall EXCEPT !.result = LoadResult(TRUE, 0, 0, "None")]
    ELSE IF ~client_ok
    THEN [NoLoadCall EXCEPT !.raised = "ConnectionError"]
    ELSE LET done == load_batches(d.rows, size, failing, 0,
                        [rows_loaded |-> 0, rows_failed |-> 0, requests |-> <<>>])
             success == done.rows_failed = 0
         IN [raised |-> "None",
             result |-> LoadResult(success, done.rows_loaded, done.rows_failed,
                                   IF success THEN "None" ELSE "filas fallaron"),
             requests |-> done.requests]

(***************************************************************************)
(* run_pipeline (src/src/etl/pipeline.py) and the extractors it calls      *)
(* (src/src/etl/extract.py).  A result that is None is the empty sequence, *)
(* a result that is set is a sequence of one element.                      *)
(***************************************************************************)
\* dataclass ExtractionResult
ExtractionResult(success, data, row_counts, error) ==
    [success |-> success, data |-> data, row_counts |-> row_counts,
     error |-> error]

NoExtraction == ExtractionResult(FALSE, NoneFrame, 0, "None")

\* extract_csv: a file that is missing or cannot be read gives a failed
\* result, any other file the frame of its rows.
extract_csv(file) ==
    IF file.kind = "missing"
    THEN ExtractionResult(FALSE, NoneFrame, 0, "Archivo no encontrado")
    ELSE IF file.kind = "unreadable"
    THEN ExtractionResult(FALSE, NoneFrame, 0, "read_csv")
    ELSE ExtractionResult(TRUE, Frame(file.rows), Len(file.rows), "None")

\* extract_from_supabase("productos")
extract_from_supabase(backend) ==
    IF ~backend.reachable
    THEN ExtractionResult(FALSE, NoneFrame, 0, "execute")
    ELSE ExtractionResult(TRUE, Frame(backend.productos),
                          Len(backend.productos), "None")

\* {row['nombre']: row['id'] for _, row in data.iterrows()}: a name keeps the
\* place of its first row and the id of its last row.
pipeline_productos_map(rows) ==
    LET first == SelectSeq([k \in 1..Len(rows) |-> k],
                     LAMBDA k : \A j \in 1..(k - 1) : rows[j][1] # rows[k][1])
        last_id(k) ==
            rows[CHOOSE j \in 1..Len(rows) :
                    /\ rows[j][1] = rows[k][1]
                    /\ \A h \in (j + 1)..Len(rows) : rows[h][1] # rows[k][1]][2]
    IN [n \in 1..Len(first) |-> <<rows[first[n]][1], last_id(first[n])>>]

\* dataclass PipelineResult: the field is named success, and __init__ accepts
\* no other keyword.
PipelineResult(keyword, flag, extr, transf, load, error) ==
    IF keyword # "success"
    THEN [raised |-> "TypeError", success |-> FALSE, extraction |-> <<>>,
          transformation |-> <<>>, load |-> <<>>, error |-> "None"]
    ELSE [raised |-> "None", success |-> flag, extraction |-> extr,
          transformation |-> transf, load |-> load, error |-> error]

\* run_pipeline left by an exception of a stage.
PipelineRaised(exception) ==
    [raised |-> exception, success |-> FALSE, extraction |-> <<>>,
     transformation |-> <<>>, load |-> <<>>, error |-> "None"]

NoPipelineResult == PipelineRaised("None")

\* One invocation of a stage function, with the rows it was handed.
Call(fn, rows) == [fn |-> fn, rows |-> rows]

\* batch_size of the load stage
PipelineBatchSize == 50

(***************************************************************************)
(* ProductoRepository (src/src/db/repositories/producto.py) over           *)
(* BaseRepository (src/src/db/repositories/base.py).  The backend table    *)
(* holds, for each product id, whether a row is stored, its stock and its  *)
(* activo flag; name and category of a product are fixed.  A request to    *)
(* the backend may raise; raises says whether it does.                     *)
(***************************************************************************)
ProductIds == {1, 2}

Clients == {1, 2}

NoProduct == [stored |-> FALSE, stock |-> 0, activo |-> FALSE]

nombre_of(id) == IF id = 1 THEN <<"a", "b">> ELSE <<"c">>

categoria_of(id) == id

\* The row of a stored product as the backend returns it.
row_of(table, id) ==
    [id |-> id, nombre |-> nombre_of(id), categoria_id |-> categoria_of(id),
     stock |-> table[id].stock, activo |-> table[id].activo]

\* The rows of the stored products that satisfy keep, by ascending id (which
\* is also the order of their names).
rows_where(table, keep) ==
    LET ids == SelectSeq([k \in 1..Cardinality(ProductIds) |-> k],
                         LAMBDA id : id \in keep /\ table[id].stored)
    IN [k \in 1..Len(ids) |-> row_of(table, ids[k])]

\* dataclass QueryResults; data None is the empty sequence.
QueryResults(succes, data, error, count) ==
    [succes |-> succes, data |-> data, error |-> error, count |-> count]

\* _handle_response for a response whose data is a list
handle_list(data) == QueryResults(TRUE, data, "None", Len(data))

\* A request the backend answered with an exception.
request_failed == QueryResults(FALSE, <<>>, "execute", 0)

\* One request to the backend.
Request(verb, id) == [verb |-> verb, id |-> id]

\* What a repository call did: the table after it, its result, and the
\* requests it sent.
Outcome(table, res, requests) ==
    [table |-> table, result |-> res, requests |-> requests]

\* BaseRepository.get_by_id: .single() raises unless exactly one row matches;
\* the data of a single row is a dict, counted as 1.
get_by_id(table, id, raises) ==
    IF raises \/ ~table[id].stored
    THEN Outcome(table, request_failed, <<Request("select", id)>>)
    ELSE Outcome(table, QueryResults(TRUE, <<row_of(table, id)>>, "None", 1),
                 <<Request("select", id)>>)

\* BaseRepository.update with data {field: val}: the rows that matched are
\* returned, none when the id is not stored.
update(table, id, field, val, raises) ==
    IF raises
    THEN Outcome(table, request_failed, <<Request("update", id)>>)
    ELSE LET after ==
                 IF ~table[id].stored THEN table
                 ELSE IF field = "stock"
                 THEN [table EXCEPT ![id].stock = val]
                 ELSE [table EXCEPT ![id].activo = val]
         IN Outcome(after, handle_list(rows_where(after, {id})),
                    <<Request("update", id)>>)

\* BaseRepository.delete
delete(table, id, raises) ==
    IF raises
    THEN Outcome(table, request_failed, <<Request("delete", id)>>)
    ELSE Outcome([table EXCEPT ![id] = NoProduct],
                 handle_list(rows_where(table, {id})),
                 <<Request("delete", id)>>)

\* get_activos without the filter on activo.
get_activos_unfiltered(table, raises) ==
    IF raises
    THEN Outcome(table, request_failed, <<Request("select", 0)>>)
    ELSE Outcome(table, handle_list(rows_where(table, ProductIds)),
                 <<Request("select", 0)>>)

get_activos(table, raises) ==
    IF raises
    THEN Outcome(table, request_failed, <<Request("select", 0)>>)
    ELSE Outcome(table,
                 handle_list(rows_where(table,
                     {id \in ProductIds : table[id].activo})),
                 <<Request("select", 0)>>)

get_by_categoria(table, categoria_id, raises) ==
    IF raises
    THEN Outcome(table, request_failed, <<Request("select", 0)>>)
    ELSE Outcome(table,
                 handle_list(rows_where(table,
                     {id \in ProductIds : /\ categoria_of(id) = categoria_id
                                          /\ table[id].activo})),
                 <<Request("select", 0)>>)

\* text ILIKE %term%
ilike(text, term) ==
    \E k \in 0..(Len(text) - Len(term)) :
        SubSeq(Lower(text), k + 1, k + Len(term)) = Lower(term)

SearchTerms == << <<>>, <<"B">>, <<"c">> >>

search(table, term, raises) ==
    IF raises
    THEN Outcome(table, request_failed, <<Request("select", 0)>>)
    ELSE Outcome(table,
                 handle_list(rows_where(table,
                     {id \in ProductIds : /\ ilike(nombre_of(id), term)
                                          /\ table[id].activo})),
                 <<Request("select", 0)>>)

\* update_stock without the check of the sign.
update_stock_unchecked(table, id, cantidad, raises) ==
    update(table, id, "stock", cantidad, raises)

update_stock(table, id, cantidad, raises) ==
    IF cantidad < 0
    THEN Outcome(table,
                 QueryResults(FALSE, <<>>, "El stock no puede ser negativo", 0),
                 <<>>)
    ELSE update(table, id, "stock", cantidad, raises)

soft_delete(table, id, raises) == update(table, id, "activo", FALSE, raises)

restore(table, id, raises) == update(table, id, "activo", TRUE, raises)

\* ajustar_stock after get_by_id succeeded and gave stock_actual
ajustar_stock_write(table, id, ajuste, stock_actual, raises) ==
    LET nuevo_stock == stock_actual + ajuste
        out == IF nuevo_stock < 0
               THEN Outcome(table,
                            QueryResults(FALSE, <<>>, "Stock insuficiente", 0),
                            <<>>)
               ELSE update_stock(table, id, nuevo_stock, raises)
    IN [out EXCEPT !.requests = <<Request("select", id)>> \o @]

\* A completed call of a client; tick flips with every call the client
\* completes.
Completed(tick, op, id, arg, out) ==
    [tick |-> tick, op |-> op, id |-> id, arg |-> arg,
     result |-> out.result, requests |-> out.requests]

NoCall ==
    [tick |-> 0, op |-> "None", id |-> 0, arg |-> 0,
     result |-> QueryResults(FALSE, <<>>, "None", 0), requests |-> <<>>]

NoPending == [id |-> 0, ajuste |-> 0, stock_actual |-> 0]

\* d is None, or a frame of 0..MaxRows rows of the pool.
IsBatch(d, pool) ==
    \/ d = NoneFrame
    \/ \E n \in 0..MaxRows : \E rows \in [1..n -> pool] : d = Frame(rows)

DateIdle == dpc = "idle" /\ date_str = NULL /\ date_result = NaT

CleanIdle == cpc = "idle" /\ clean_value = NULL /\ clean_result = <<>>

LoadIdle ==
    lpc = "idle" /\ load_df = NoneFrame /\ batch_size = 1 /\ load_call = NoLoadCall

RepositoryIdle ==
    /\ productos = [id \in ProductIds |-> NoProduct]
    /\ stock_at_start = 0
    /\ rpc = [p \in Clients |-> "idle"]
    /\ pending = [p \in Clients |-> NoPending]
    /\ returned = [p \in Clients |-> NoCall]

PipelineIdle ==
    /\ ppc = "idle"
    /\ input_file = [kind |-> "missing", rows |-> <<>>]
    /\ dry_run = FALSE
    /\ supabase = [reachable |-> FALSE, productos |-> <<>>]
    /\ calls = <<>>
    /\ extraction = NoExtraction
    /\ productos_result = NoExtraction
    /\ transformation = NoResult
    /\ load_result = NoLoadResult
    /\ pipeline_result = NoPipelineResult

Init ==
    /\ pc = "ready"
    /\ IsBatch(df, RuleRows)
    /\ productos_map \in RuleMaps
    /\ result = NoResult
    /\ DateIdle
    /\ CleanIdle
    /\ LoadIdle
    /\ PipelineIdle
    /\ RepositoryIdle

InitKeys ==
    /\ pc = "ready"
    /\ IsBatch(df, KeyRows)
    /\ productos_map \in KeyMaps
    /\ result = NoResult
    /\ DateIdle
    /\ CleanIdle
    /\ LoadIdle
    /\ PipelineIdle
    /\ RepositoryIdle

TransformVentas ==
    /\ pc = "ready"
    /\ result' = transform_ventas(df, productos_map)
    /\ pc' = IF result'.raised = "None" THEN "returned" ELSE "raised"
    /\ df' = df_after_call(df)
    /\ productos_map' = productos_map_after_call(productos_map)
    /\ UNCHANGED <<dateVars, cleanVars, loadVars, pipelineVars, repositoryVars>>

\* The caller calls transform_ventas once more with the objects it passed to
\* the first call.
TransformVentasAgain ==
    /\ pc \in {"returned", "raised"}
    /\ result' = transform_ventas(df, productos_map)
    /\ pc' = IF result'.raised = "None" THEN "returned_again" ELSE "raised_again"
    /\ df' = df_after_call(df)
    /\ productos_map' = productos_map_after_call(productos_map)
    /\ UNCHANGED <<dateVars, cleanVars, loadVars, pipelineVars, repositoryVars>>

Next == TransformVentas

Spec == Init /\ [][Next]_vars

SpecKeys == InitKeys /\ [][Next]_vars

\* Two calls in a row on the batches of KeyRows.
NextTwice == TransformVentas \/ TransformVentasAgain

SpecTwice == InitKeys /\ [][NextTwice]_vars

\* Batches for the product lookup: every cell but producto is valid; the name
\* is missing, or one name written with different case and blanks.  The maps
\* hold that name as a key written plainly, with other case and padding, with
\* a doubled inner blank, beside a key of blanks only, or hold nothing.
ProductRows ==
    [fecha : {<<"2", "0", "2", "4", "-", "0", "1", "-", "1", "5">>},
     producto : {NULL, <<"a", " ", "b">>, <<" ", "A", " ", " ", "b", " ">>},
     cantidad : {<<"2">>},
     precio_unitario : {<<"5">>},
     tienda : {<<"T">>, <<"U">>},
     vendedor : {<<"V">>}]

ProductMaps ==
    { << <<<<"a", " ", "b">>, 7>> >>,
      << <<<<" ", "A", " ", "B", " ">>, 7>> >>,
      << <<<<"a", " ", " ", "b">>, 7>> >>,
      << <<<<" ">>, 5>>, <<<<"a", " ", "b">>, 7>> >>,
      << >> }

InitProducts ==
    /\ pc = "ready"
    /\ IsBatch(df, ProductRows)
    /\ productos_map \in ProductMaps
    /\ result = NoResult
    /\ DateIdle
    /\ CleanIdle
    /\ LoadIdle
    /\ PipelineIdle
    /\ RepositoryIdle

SpecProducts == InitProducts /\ [][Next]_vars

(***************************************************************************)
(* One call of parse_date_flexible(date_str).  The argument is missing,    *)
(* empty, or three groups of digits joined by two separators, with or      *)
(* without surrounding blanks.                                             *)
(***************************************************************************)
DatePartPool ==
    {<<"2", "0", "2", "4">>, <<"2", "0", "2", "3">>, <<"0", "2">>, <<"0", "3">>, <<"0", "4">>, <<"1", "3">>, <<"2", "9">>, <<"3", "1">>, <<"3">>}

DateSepPool == {"-", "/"}

DatePadPool == {<<>>, <<" ">>}

IsDateInput(s) ==
    \/ s = NULL
    \/ s = <<>>
    \/ \E a \in DatePartPool, b \in DatePartPool, c \in DatePartPool,
          s1 \in DateSepPool, s2 \in DateSepPool, pad \in DatePadPool :
            s = pad \o a \o <<s1>> \o b \o <<s2>> \o c \o pad

TransformIdle ==
    pc = "idle" /\ df = NoneFrame /\ productos_map = <<>> /\ result = NoResult

InitDate ==
    /\ dpc = "ready"
    /\ IsDateInput(date_str)
    /\ date_result = NaT
    /\ TransformIdle
    /\ CleanIdle
    /\ LoadIdle
    /\ PipelineIdle
    /\ RepositoryIdle

ParseDateFlexible ==
    /\ dpc = "ready"
    /\ date_result' = parse_date_flexible(date_str)
    /\ dpc' = "returned"
    /\ UNCHANGED <<date_str, transformVars, cleanVars, loadVars, pipelineVars,
                   repositoryVars>>

NextDate == ParseDateFlexible

SpecDate == InitDate /\ [][NextDate]_vars

(***************************************************************************)
(* One call of clean_string(value).  The argument is missing, or a text of *)
(* at most MaxLen characters: letters, blanks and tabs.                    *)
(***************************************************************************)
MaxLen == 4

CleanCharPool == {"a", "B", " ", "\t"}

IsCleanInput(s) ==
    \/ s = NULL
    \/ \E n \in 0..MaxLen : s \in [1..n -> CleanCharPool]

InitClean ==
    /\ cpc = "ready"
    /\ IsCleanInput(clean_value)
    /\ clean_result = <<>>
    /\ TransformIdle
    /\ DateIdle
    /\ LoadIdle
    /\ PipelineIdle
    /\ RepositoryIdle

CleanString ==
    /\ cpc = "ready"
    /\ clean_result' = clean_string(clean_value)
    /\ cpc' = "returned"
    /\ UNCHANGED <<clean_value, transformVars, dateVars, loadVars, pipelineVars,
                   repositoryVars>>

\* The caller cleans the text it got back.
CleanStringAgain ==
    /\ cpc = "returned"
    /\ clean_result' = clean_string(clean_result)
    /\ cpc' = "returned_again"
    /\ UNCHANGED <<clean_value, transformVars, dateVars, loadVars, pipelineVars,
                   repositoryVars>>

NextClean == CleanString \/ CleanStringAgain

SpecClean == InitClean /\ [][NextClean]_vars

(***************************************************************************)
(* One call of load_to_supabase(df, table_name, batch_size).  The frame is *)
(* None or holds 0..MaxRecords records, numbered in order; the batch size  *)
(* is 1..MaxBatch.  The client may be unavailable, and each request to the *)
(* backend may raise.                                                      *)
(***************************************************************************)
MaxRecords == 5

MaxBatch == 3

IsLoadInput(d) ==
    \/ d = NoneFrame
    \/ \E n \in 0..MaxRecords : d = Frame([k \in 1..n |-> k])

InitLoad ==
    /\ lpc = "ready"
    /\ IsLoadInput(load_df)
    /\ batch_size \in 1..MaxBatch
    /\ load_call = NoLoadCall
    /\ TransformIdle
    /\ DateIdle
    /\ CleanIdle
    /\ PipelineIdle
    /\ RepositoryIdle

LoadToSupabase ==
    /\ lpc = "ready"
    /\ \E client_ok \in BOOLEAN, failing \in SUBSET (1..MaxRecords) :
          load_call' = load_to_supabase(load_df, batch_size, client_ok, failing)
    /\ lpc' = IF load_call'.raised = "None" THEN "returned" ELSE "raised"
    /\ UNCHANGED <<load_df, batch_size, transformVars, dateVars, cleanVars,
                   pipelineVars, repositoryVars>>

NextLoad == LoadToSupabase

SpecLoad == InitLoad /\ [][NextLoad]_vars

(***************************************************************************)
(* One call of run_pipeline(input_file, dry_run).  The file is missing,    *)
(* unreadable, or a CSV of 0..MaxRows sales rows; the backend is           *)
(* unreachable or holds a productos table.  Each stage is one step.        *)
(***************************************************************************)
PipelineRows ==
    [fecha : {<<"2", "0", "2", "4", "-", "0", "1", "-", "1", "5">>, <<"2", "0", "2", "4", "-", "1", "3", "-", "4", "5">>},
     producto : {<<"A", "b">>},
     cantidad : {<<"2">>, <<"0">>},
     precio_unitario : {<<"5">>},
     tienda : {<<"T">>},
     vendedor : {<<"V">>}]

ProductosTables ==
    { << <<<<"A", "b">>, 7>> >>,
      << <<<<"A", "b">>, 7>>, <<<<"a", "b">>, 8>>, <<<<"A", "b">>, 9>> >>,
      << >> }

IsInputFile(file) ==
    \/ file = [kind |-> "missing", rows |-> <<>>]
    \/ file = [kind |-> "unreadable", rows |-> <<>>]
    \/ \E n \in 0..MaxRows : \E rows \in [1..n -> PipelineRows] :
          file = [kind |-> "csv", rows |-> rows]

IsBackend(backend) ==
    \/ backend = [reachable |-> FALSE, productos |-> <<>>]
    \/ \E table \in ProductosTables :
          backend = [reachable |-> TRUE, productos |-> table]

InitPipeline ==
    /\ ppc = "start"
    /\ IsInputFile(input_file)
    /\ dry_run \in BOOLEAN
    /\ IsBackend(supabase)
    /\ calls = <<>>
    /\ extraction = NoExtraction
    /\ productos_result = NoExtraction
    /\ transformation = NoResult
    /\ load_result = NoLoadResult
    /\ pipeline_result = NoPipelineResult
    /\ TransformIdle
    /\ DateIdle
    /\ CleanIdle
    /\ LoadIdle
    /\ RepositoryIdle

\* The extract stage when a failed extraction does not end the run.
PipelineExtractContinues ==
    /\ ppc = "start"
    /\ calls' = Append(calls, Call("extract_csv", <<>>))
    /\ extraction' = extract_csv(input_file)
    /\ ppc' = "extracted"
    /\ UNCHANGED <<input_file, dry_run, supabase, productos_result,
                   transformation, load_result, pipeline_result>>
    /\ UNCHANGED <<transformVars, dateVars, cleanVars, loadVars, repositoryVars>>

\* pipeline.py:73-81
PipelineExtract ==
    /\ ppc = "start"
    /\ calls' = Append(calls, Call("extract_csv", <<>>))
    /\ extraction' = extract_csv(input_file)
    /\ IF extraction'.success
       THEN ppc' = "extracted" /\ UNCHANGED pipeline_result
       ELSE /\ ppc' = "returned"
            /\ pipeline_result' =
                  PipelineResult("success", FALSE, <<extraction'>>, <<>>, <<>>,
                                 "Error en extraccion")
    /\ UNCHANGED <<input_file, dry_run, supabase, productos_result,
                   transformation, load_result>>
    /\ UNCHANGED <<transformVars, dateVars, cleanVars, loadVars, repositoryVars>>

\* pipeline.py:85-92
PipelineFetchProductos ==
    /\ ppc = "extracted"
    /\ calls' = Append(calls, Call("extract_from_supabase", <<>>))
    /\ productos_result' = extract_from_supabase(supabase)
    /\ IF productos_result'.success
       THEN ppc' = "fetched" /\ UNCHANGED pipeline_result
       ELSE /\ ppc' = "returned"
            /\ pipeline_result' =
                  PipelineResult("success", FALSE, <<extraction>>, <<>>, <<>>,
                                 "Error obteniendo productos")
    /\ UNCHANGED <<input_file, dry_run, supabase, extraction,
                   transformation, load_result>>
    /\ UNCHANGED <<transformVars, dateVars, cleanVars, loadVars, repositoryVars>>

\* pipeline.py:95-112
PipelineTransform ==
    /\ ppc = "fetched"
    /\ calls' = Append(calls, Call("transform_ventas", extraction.data.rows))
    /\ transformation' =
          transform_ventas(extraction.data,
                           pipeline_productos_map(productos_result.data.rows))
    /\ IF transformation'.raised # "None"
       THEN /\ ppc' = "raised"
            /\ pipeline_result' = PipelineRaised(transformation'.raised)
       ELSE IF ~transformation'.succes
       THEN /\ pipeline_result' =
                  PipelineResult("succes", FALSE, <<extraction>>,
                                 <<transformation'>>, <<>>,
                                 "Error en transformacion")
            /\ ppc' = IF pipeline_result'.raised = "None"
                      THEN "returned" ELSE "raised"
       ELSE ppc' = "transformed" /\ UNCHANGED pipeline_result
    /\ UNCHANGED <<input_file, dry_run, supabase, extraction,
                   productos_result, load_result>>
    /\ UNCHANGED <<transformVars, dateVars, cleanVars, loadVars, repositoryVars>>

\* pipeline.py:115-123
PipelineSaveCsv ==
    /\ ppc = "transformed"
    /\ calls' =
          Append(calls, Call("load_to_csv", transformation.data))
          \o (IF Len(transformation.rejected_data) > 0
              THEN <<Call("load_to_csv", transformation.rejected_data)>>
              ELSE <<>>)
    /\ ppc' = "saved"
    /\ UNCHANGED <<input_file, dry_run, supabase, extraction,
                   productos_result, transformation, load_result,
                   pipeline_result>>
    /\ UNCHANGED <<transformVars, dateVars, cleanVars, loadVars, repositoryVars>>

\* The load stage when dry_run is not looked at.
PipelineLoadIgnoringDryRun ==
    /\ ppc = "saved"
    /\ \E failing \in SUBSET {1} :
          load_result' =
              load_to_supabase(Frame(transformation.data),
                               PipelineBatchSize, TRUE, failing).result
    /\ calls' = Append(calls, Call("load_to_supabase", transformation.data))
    /\ ppc' = "loaded"
    /\ UNCHANGED <<input_file, dry_run, supabase, extraction,
                   productos_result, transformation, pipeline_result>>
    /\ UNCHANGED <<transformVars, dateVars, cleanVars, loadVars, repositoryVars>>

\* pipeline.py:128-136; the client exists since the products were fetched.
PipelineLoad ==
    /\ ppc = "saved"
    /\ IF dry_run
       THEN /\ load_result' = LoadResult(TRUE, 0, 0, "None")
            /\ UNCHANGED calls
       ELSE /\ \E failing \in SUBSET {1} :
                  load_result' =
                      load_to_supabase(Frame(transformation.data),
                                       PipelineBatchSize, TRUE, failing).result
            /\ calls' = Append(calls, Call("load_to_supabase",
                                            transformation.data))
    /\ ppc' = "loaded"
    /\ UNCHANGED <<input_file, dry_run, supabase, extraction,
                   productos_result, transformation, pipeline_result>>
    /\ UNCHANGED <<transformVars, dateVars, cleanVars, loadVars, repositoryVars>>

\* The final return when the run is reported as the load went.
PipelineReturnLoadStatus ==
    /\ ppc = "loaded"
    /\ pipeline_result' =
          PipelineResult("success", load_result.success, <<extraction>>,
                         <<transformation>>, <<load_result>>, "None")
    /\ ppc' = "returned"
    /\ UNCHANGED <<input_file, dry_run, supabase, calls, extraction,
                   productos_result, transformation, load_result>>
    /\ UNCHANGED <<transformVars, dateVars, cleanVars, loadVars, repositoryVars>>

\* pipeline.py:139-157
PipelineReturn ==
    /\ ppc = "loaded"
    /\ pipeline_result' =
          PipelineResult("success", TRUE, <<extraction>>, <<transformation>>,
                         <<load_result>>, "None")
    /\ ppc' = "returned"
    /\ UNCHANGED <<input_file, dry_run, supabase, calls, extraction,
                   productos_result, transformation, load_result>>
    /\ UNCHANGED <<transformVars, dateVars, cleanVars, loadVars, repositoryVars>>

NextPipeline ==
    \/ PipelineExtract
    \/ PipelineFetchProductos
    \/ PipelineTransform
    \/ PipelineSaveCsv
    \/ PipelineLoad
    \/ PipelineReturn

SpecPipeline == InitPipeline /\ [][NextPipeline]_vars

(***************************************************************************)
(* Calls on ProductoRepository.  Each call but ajustar_stock is one        *)
(* request to the backend and one step; ajustar_stock reads the stock      *)
(* (get_by_id) in one step and decides and writes in a second one.  The    *)
(* stock of a product is 0..MaxStock.                                      *)
(***************************************************************************)
MaxStock == 1

ProductRowPool ==
    {NoProduct} \cup [stored : {TRUE}, stock : 0..MaxStock, activo : BOOLEAN]

\* The client p completes a call.
Finish(p, op, id, arg, out) ==
    /\ productos' = out.table
    /\ returned' = [returned EXCEPT
                      ![p] = Completed(1 - returned[p].tick, op, id, arg, out)]

UpdateStock(p) ==
    /\ rpc[p] = "idle"
    /\ \E id \in ProductIds, cantidad \in (0 - 1)..MaxStock, raises \in BOOLEAN :
          Finish(p, "update_stock", id, cantidad,
                 update_stock(productos, id, cantidad, raises))
    /\ UNCHANGED <<stock_at_start, rpc, pending>>
    /\ UNCHANGED <<transformVars, dateVars, cleanVars, loadVars, pipelineVars>>

\* ajustar_stock, producto.py:62-64
AjustarStockRead(p, id, ajuste) ==
    /\ rpc[p] = "idle"
    /\ \E raises \in BOOLEAN :
          LET out == get_by_id(productos, id, raises)
          IN IF ~out.result.succes
             THEN /\ Finish(p, "ajustar_stock", id, ajuste, out)
                  /\ UNCHANGED <<rpc, pending>>
             ELSE /\ pending' = [pending EXCEPT
                        ![p] = [id |-> id, ajuste |-> ajuste,
                                stock_actual |-> out.result.data[1].stock]]
                  /\ rpc' = [rpc EXCEPT ![p] = "read"]
                  /\ UNCHANGED <<productos, returned>>
    /\ UNCHANGED stock_at_start
    /\ UNCHANGED <<transformVars, dateVars, cleanVars, loadVars, pipelineVars>>

\* ajustar_stock, producto.py:66-78
AjustarStockWrite(p) ==
    /\ rpc[p] = "read"
    /\ \E raises \in BOOLEAN :
          Finish(p, "ajustar_stock", pending[p].id, pending[p].ajuste,
                 ajustar_stock_write(productos, pending[p].id, pending[p].ajuste,
                                     pending[p].stock_actual, raises))
    /\ rpc' = [rpc EXCEPT ![p] = "idle"]
    /\ pending' = [pending EXCEPT ![p] = NoPending]
    /\ UNCHANGED stock_at_start
    /\ UNCHANGED <<transformVars, dateVars, cleanVars, loadVars, pipelineVars>>

SoftDelete(p) ==
    /\ rpc[p] = "idle"
    /\ \E id \in ProductIds, raises \in BOOLEAN :
          Finish(p, "soft_delete", id, 0, soft_delete(productos, id, raises))
    /\ UNCHANGED <<stock_at_start, rpc, pending>>
    /\ UNCHANGED <<transformVars, dateVars, cleanVars, loadVars, pipelineVars>>

Restore(p) ==
    /\ rpc[p] = "idle"
    /\ \E id \in ProductIds, raises \in BOOLEAN :
          Finish(p, "restore", id, 0, restore(productos, id, raises))
    /\ UNCHANGED <<stock_at_start, rpc, pending>>
    /\ UNCHANGED <<transformVars, dateVars, cleanVars, loadVars, pipelineVars>>

Delete(p) ==
    /\ rpc[p] = "idle"
    /\ \E id \in ProductIds, raises \in BOOLEAN :
          Finish(p, "delete", id, 0, delete(productos, id, raises))
    /\ UNCHANGED <<stock_at_start, rpc, pending>>
    /\ UNCHANGED <<transformVars, dateVars, cleanVars, loadVars, pipelineVars>>

GetActivos(p) ==
    /\ rpc[p] = "idle"
    /\ \E raises \in BOOLEAN :
          Finish(p, "get_activos", 0, 0, get_activos(productos, raises))
    /\ UNCHANGED <<stock_at_start, rpc, pending>>
    /\ UNCHANGED <<transformVars, dateVars, cleanVars, loadVars, pipelineVars>>

GetByCategoria(p) ==
    /\ rpc[p] = "idle"
    /\ \E categoria_id \in ProductIds, raises \in BOOLEAN :
          Finish(p, "get_by_categoria", 0, categoria_id,
                 get_by_categoria(productos, categoria_id, raises))
    /\ UNCHANGED <<stock_at_start, rpc, pending>>
    /\ UNCHANGED <<transformVars, dateVars, cleanVars, loadVars, pipelineVars>>

\* arg is the place of the term in SearchTerms
Search(p) ==
    /\ rpc[p] = "idle"
    /\ \E t \in 1..Len(SearchTerms), raises \in BOOLEAN :
          Finish(p, "search", 0, t, search(productos, SearchTerms[t], raises))
    /\ UNCHANGED <<stock_at_start, rpc, pending>>
    /\ UNCHANGED <<transformVars, dateVars, cleanVars, loadVars, pipelineVars>>

InitRepository ==
    /\ productos \in [ProductIds -> ProductRowPool]
    /\ stock_at_start = 0
    /\ rpc = [p \in Clients |-> "idle"]
    /\ pending = [p \in Clients |-> NoPending]
    /\ returned = [p \in Clients |-> NoCall]
    /\ TransformIdle
    /\ DateIdle
    /\ CleanIdle
    /\ LoadIdle
    /\ PipelineIdle

\* One client: its calls follow one another.  An adjustment is tried only
\* where the adjusted stock stays within MaxStock.
NextRepository ==
    \/ UpdateStock(1)
    \/ \E id \in ProductIds, ajuste \in (0 - MaxStock)..MaxStock :
          /\ productos[id].stock + ajuste <= MaxStock
          /\ AjustarStockRead(1, id, ajuste)
    \/ AjustarStockWrite(1)
    \/ SoftDelete(1)
    \/ Restore(1)
    \/ Delete(1)
    \/ GetActivos(1)
    \/ GetByCategoria(1)
    \/ Search(1)

SpecRepository == InitRepository /\ [][NextRepository]_vars

\* Two clients, each adjusting the stock of product 1 once, their steps
\* interleaved in every order.
InitConcurrent ==
    /\ \E stock \in 0..MaxStock :
          productos = [id \in ProductIds |->
                          IF id = 1
                          THEN [stored |-> TRUE, stock |-> stock, activo |-> TRUE]
                          ELSE NoProduct]
    /\ stock_at_start = productos[1].stock
    /\ rpc = [p \in Clients |-> "idle"]
    /\ pending = [p \in Clients |-> NoPending]
    /\ returned = [p \in Clients |-> NoCall]
    /\ TransformIdle
    /\ DateIdle
    /\ CleanIdle
    /\ LoadIdle
    /\ PipelineIdle

AjustarStockOnce(p) ==
    /\ returned[p].tick = 0
    /\ \E ajuste \in (0 - MaxStock)..MaxStock : AjustarStockRead(p, 1, ajuste)

NextConcurrent ==
    \E p \in Clients : AjustarStockOnce(p) \/ AjustarStockWrite(p)

SpecConcurrent == InitConcurrent /\ [][NextConcurrent]_vars

(***************************************************************************)
(* Properties of transform_ventas, stated on the call's arguments and its  *)
(* result.  The rules and the deduplication key are spelled out here from  *)
(* the raw cells of the input rows, independently of the masks and of the  *)
(* scan the transform uses.                                                *)
(***************************************************************************)
Returned == pc = "returned"

RowCount == Len(df.rows)

AcceptedIdx == {result.data[k].index : k \in 1..Len(result.data)}

RejectedIdx == {result.rejected_data[k].index : k \in 1..Len(result.rejected_data)}

DateUnresolved(raw) == parse_date_flexible(raw.fecha) = NaT

NotPositive(cell) == to_numeric(cell) = NaN \/ to_numeric(cell).m <= 0

ProductUnmatched(raw) ==
    \/ raw.producto = NULL
    \/ \A k \in 1..Len(productos_map) :
          Strip(Lower(productos_map[k][1]))
              # Strip(Lower(clean_string(raw.producto)))

RawFailsSomeRule(raw) ==
    \/ DateUnresolved(raw)
    \/ NotPositive(raw.cantidad)
    \/ NotPositive(raw.precio_unitario)
    \/ ProductUnmatched(raw)

\* The key of an input row: the date as written, the cleaned product and store
\* names, the quantity and price as numbers.
RawKey(raw) ==
    <<raw.fecha, clean_string(raw.producto), to_numeric(raw.cantidad),
      to_numeric(raw.precio_unitario), clean_string(raw.tienda)>>

FailsSomeRule(i) == RawFailsSomeRule(df.rows[i])

KeyOf(i) == RawKey(df.rows[i])

\* Row i repeats the key of an earlier row: deduplication removes it.
LaterDuplicate(i) == \E j \in 1..(i - 1) : KeyOf(j) = KeyOf(i)

DuplicateIdx == {i \in 1..RowCount : LaterDuplicate(i)}

NoRepeatedIndex(frame) ==
    \A k \in 1..Len(frame) : \A l \in 1..Len(frame) :
        frame[k].index = frame[l].index => k = l

\* C1: after transform_ventas on a non-empty batch every input row is in
\* exactly one of the accepted output, the rejected output and the rows removed
\* as duplicates; the three are pairwise disjoint, cover the input, and hold no
\* row twice.
C1_Partition ==
    Returned =>
        /\ AcceptedIdx \cup RejectedIdx \cup DuplicateIdx = 1..RowCount
        /\ AcceptedIdx \cap RejectedIdx = {}
        /\ AcceptedIdx \cap DuplicateIdx = {}
        /\ RejectedIdx \cap DuplicateIdx = {}
        /\ NoRepeatedIndex(result.data)
        /\ NoRepeatedIndex(result.rejected_data)

\* C2: for every successful result, rows_output + rows_rejected +
\* stats['duplicados_eliminados'] equals rows_input.
C2_CountsAddUp ==
    Returned /\ result.succes =>
        result.rows_output + result.rows_rejected
            + result.stats.duplicados_eliminados = result.rows_input

\* C3: called with an empty or absent batch, transform_ventas raises nothing
\* and returns a result whose success flag is false and whose error is set,
\* with no accepted or rejected partition.
C3_EmptyBatchFailsFast ==
    (pc # "ready" /\ (df.is_none \/ df.rows = <<>>)) =>
        /\ pc = "returned"
        /\ result.raised = "None"
        /\ ~result.succes
        /\ result.error # "None"
        /\ ~result.has_data

\* C4: a row that survives deduplication is in the rejected output if and only
\* if it fails at least one of the four rules, and every row of the accepted
\* output has a resolved date, a quantity > 0, a unit price > 0 and a product
\* identifier.
C4_RejectedIffRuleFails ==
    Returned =>
        /\ \A i \in (1..RowCount) \ DuplicateIdx :
              /\ i \in RejectedIdx <=> FailsSomeRule(i)
              /\ i \in AcceptedIdx <=> ~FailsSomeRule(i)
        /\ \A k \in 1..Len(result.data) :
              /\ ~DateUnresolved(df.rows[result.data[k].index])
              /\ result.data[k].cantidad # NaN
              /\ result.data[k].cantidad.m > 0
              /\ result.data[k].precio_unitario # NaN
              /\ result.data[k].precio_unitario.m > 0
              /\ result.data[k].producto_id # NoId

\* C4 witness: a returned batch with a surviving row that fails a rule and is
\* rejected, and a surviving row that fails none and is accepted.
C4_Witness ==
    /\ Returned
    /\ RowCount = 2
    /\ KeyOf(1) # KeyOf(2)
    /\ FailsSomeRule(1) /\ RejectedIdx = {1}
    /\ ~FailsSomeRule(2) /\ AcceptedIdx = {2}

\* C5: a row removed by deduplication is in neither the accepted nor the
\* rejected output, whether or not it also fails a rule.
C5_DuplicatesInNeitherOutput ==
    Returned =>
        DuplicateIdx \cap (AcceptedIdx \cup RejectedIdx) = {}

\* C6: deduplication keeps, for each key, the row with the smallest position
\* and removes every later row with that key; the accepted output lists the
\* surviving rows in their input order.
C6_KeepsFirstInInputOrder ==
    Returned =>
        /\ \A i \in 1..RowCount : LaterDuplicate(i) => i \notin AcceptedIdx
        /\ \A i \in 1..RowCount :
              (~LaterDuplicate(i) /\ ~FailsSomeRule(i)) => i \in AcceptedIdx
        /\ \A k \in 1..Len(result.data) : \A l \in 1..Len(result.data) :
              k < l => result.data[k].index < result.data[l].index

\* C6 witness (scenario D): two rows with one key, both passing every rule; the
\* first is the only accepted row and one duplicate is counted.
C6_Witness ==
    /\ Returned
    /\ RowCount = 2
    /\ KeyOf(1) = KeyOf(2)
    /\ ~FailsSomeRule(1)
    /\ AcceptedIdx = {1}
    /\ result.stats.duplicados_eliminados = 1

\* C7: deduplication runs over the whole batch whatever the validation marks:
\* stats['duplicados_eliminados'] is the number of input rows whose key equals
\* that of an earlier input row, valid and invalid rows alike.
C7_DuplicatesCountedOverWholeBatch ==
    Returned =>
        result.stats.duplicados_eliminados = Cardinality(DuplicateIdx)

\* C7 witness: a row that fails a rule repeats the key of an earlier row and is
\* counted as a duplicate.
C7_Witness ==
    /\ Returned
    /\ RowCount = 2
    /\ KeyOf(1) = KeyOf(2)
    /\ FailsSomeRule(2)
    /\ result.stats.duplicados_eliminados = 1

\* Rows i and j agree on the key apart from the date.
RestOfKeyEqual(i, j) == \A c \in 2..5 : KeyOf(i)[c] = KeyOf(j)[c]

\* Rows i and j give one day in two different texts.
SameDayOtherText(i, j) ==
    /\ df.rows[i].fecha # df.rows[j].fecha
    /\ ~DateUnresolved(df.rows[i])
    /\ parse_date_flexible(df.rows[i].fecha) = parse_date_flexible(df.rows[j].fecha)

\* Rows i and j agree on the key, with the quantity or the price written
\* differently.
SameNumberOtherText(i, j) ==
    /\ KeyOf(i) = KeyOf(j)
    /\ \/ df.rows[i].cantidad # df.rows[j].cantidad
       \/ df.rows[i].precio_unitario # df.rows[j].precio_unitario

\* C8: the key compares the date by its text and the quantity and price by
\* their numeric value.  A row whose date text differs from the date text of
\* every earlier row is not removed, even when an earlier row denotes the same
\* day and agrees on the rest of the key; a row that agrees with an earlier row
\* on the key, with the quantity or price written differently, is removed.
C8_KeyDateTextNumbersByValue ==
    Returned =>
        /\ \A j \in 1..RowCount :
              ((\A i \in 1..(j - 1) : df.rows[i].fecha # df.rows[j].fecha)
                  /\ ~FailsSomeRule(j)) => j \in AcceptedIdx
        /\ \A j \in 1..RowCount :
              (\E i \in 1..(j - 1) : SameNumberOtherText(i, j))
                  => j \notin AcceptedIdx
        /\ (RowCount = 2 /\ SameDayOtherText(1, 2) /\ RestOfKeyEqual(1, 2))
              => result.stats.duplicados_eliminados = 0
        /\ (RowCount = 2 /\ SameNumberOtherText(1, 2))
              => result.stats.duplicados_eliminados = 1

\* C8 witness: the same day in two formats and the same quantity written as 2
\* and as 2.0; the rest of the key is equal and both rows are accepted.
C8_Witness ==
    /\ Returned
    /\ RowCount = 2
    /\ SameDayOtherText(1, 2)
    /\ RestOfKeyEqual(1, 2)
    /\ df.rows[1].cantidad # df.rows[2].cantidad
    /\ AcceptedIdx = {1, 2}
    /\ result.stats.duplicados_eliminados = 0

Pow10(n) == IF n = 0 THEN 1 ELSE IF n = 1 THEN 10 ELSE IF n = 2 THEN 100 ELSE 1000

\* x = c * p for exact decimals, by cross-multiplication.
IsProduct(x, c, p) ==
    /\ x # NaN /\ c # NaN /\ p # NaN
    /\ x.m * Pow10(c.s + p.s) = c.m * p.m * Pow10(x.s)

DateReturned == dpc = "returned"

\* The six formats in the order YYYY-MM-DD, DD/MM/YYYY, MM/DD/YYYY,
\* DD-MM-YYYY, MM-DD-YYYY, YYYY/MM/DD.
OrderedFormats ==
    << <<"%Y", "-", "%m", "-", "%d">>,
       <<"%d", "/", "%m", "/", "%Y">>,
       <<"%m", "/", "%d", "/", "%Y">>,
       <<"%d", "-", "%m", "-", "%Y">>,
       <<"%m", "-", "%d", "-", "%Y">>,
       <<"%Y", "/", "%m", "/", "%d">> >>

\* The positions of the formats that parse the whole of s.
ParsingFormats(s) ==
    {k \in 1..Len(OrderedFormats) : strptime(s, OrderedFormats[k]) # NaT}

\* The date the first parsing format gives for s, NaT when none parses it.
FirstParse(s) ==
    IF ParsingFormats(s) = {} THEN NaT
    ELSE LET k == CHOOSE k \in ParsingFormats(s) :
                      \A l \in ParsingFormats(s) : k <= l
         IN strptime(s, OrderedFormats[k])

SlashAmbiguous(s) ==
    /\ strptime(s, OrderedFormats[2]) # NaT
    /\ strptime(s, OrderedFormats[3]) # NaT
    /\ strptime(s, OrderedFormats[2]) # strptime(s, OrderedFormats[3])

\* C10: parse_date_flexible returns, for the trimmed input, the date given by
\* the first of the six formats, in their fixed order, that parses the whole
\* string; a string valid both as DD/MM/YYYY and as MM/DD/YYYY is read as
\* DD/MM/YYYY.  The result is a function of the input.
C10_FirstFormatWins ==
    (DateReturned /\ date_str # NULL /\ date_str # <<>>) =>
        /\ date_result = FirstParse(Strip(date_str))
        /\ SlashAmbiguous(Strip(date_str))
              => date_result = strptime(Strip(date_str), OrderedFormats[2])

\* C10 witness: 03/04/2024 parses as DD/MM/YYYY and as MM/DD/YYYY and is
\* returned as the 3rd of April 2024.
C10_Witness ==
    /\ DateReturned
    /\ date_str = <<"0", "3", "/", "0", "4", "/", "2", "0", "2", "4">>
    /\ SlashAmbiguous(date_str)
    /\ date_result = [year |-> 2024, month |-> 4, day |-> 3]

(***************************************************************************)
(* Unresolved dates.                                                       *)
(***************************************************************************)
\* The fecha cell is missing, empty, or matches none of the six formats.
NoDateGiven(raw) ==
    \/ raw.fecha = NULL
    \/ raw.fecha = <<>>
    \/ ParsingFormats(Strip(raw.fecha)) = {}

NoDateIdx == {i \in 1..RowCount : NoDateGiven(df.rows[i])}

\* C11: a row whose date is missing, empty or matches none of the six formats
\* (2024-13-45 among them) makes nothing raise: the call returns, the row is
\* counted in fechas_invalidas and is in the rejected output.
C11_UnresolvedDateIsRejected ==
    (pc # "ready" /\ NoDateIdx # {}) =>
        /\ pc = "returned"
        /\ result.raised = "None"
        /\ result.stats.fechas_invalidas = Cardinality(NoDateIdx)
        /\ NoDateIdx \subseteq RejectedIdx

(***************************************************************************)
(* Product resolution.                                                     *)
(***************************************************************************)
\* A name or a key without its case and its blanks: lower case, no leading or
\* trailing blanks, every inner run of blanks one space.
InsensitiveForm(text) == Lower(clean_string(text))

\* The positions of the map whose key is the name up to case and blanks.
MatchingKeys(name) ==
    {k \in 1..Len(productos_map) :
        InsensitiveForm(productos_map[k][1]) = InsensitiveForm(name)}

\* The identifier of the key that is the name up to case and blanks (the last
\* one when several keys are), NoId when there is none.
InsensitiveLookup(name) ==
    IF MatchingKeys(name) = {} THEN NoId
    ELSE LET k == CHOOSE k \in MatchingKeys(name) :
                      \A l \in MatchingKeys(name) : l <= k
         IN productos_map[k][2]

\* The identifier the call resolved for input row i: the producto_id of its
\* accepted row, NoId when the row is not accepted.
ResolvedId(i) ==
    IF i \in AcceptedIdx
    THEN LET k == CHOOSE k \in 1..Len(result.data) : result.data[k].index = i
         IN result.data[k].producto_id
    ELSE NoId

\* Row i has a product name, is no later duplicate and passes the date, the
\* quantity and the price rule: only the product lookup decides about it.
DecidedByLookup(i) ==
    /\ df.rows[i].producto # NULL
    /\ ~LaterDuplicate(i)
    /\ ~DateUnresolved(df.rows[i])
    /\ ~NotPositive(df.rows[i].cantidad)
    /\ ~NotPositive(df.rows[i].precio_unitario)

\* C12: product resolution ignores letter case and leading, trailing and
\* inner-run blanks on both sides: a name resolves to the identifier of the
\* map key equal to it up to case and blanks (not found when there is none),
\* so two names equal up to case and blanks resolve alike.
C12_LookupIgnoresCaseAndBlanks ==
    Returned =>
        /\ \A i \in 1..RowCount :
              DecidedByLookup(i)
                  => ResolvedId(i) = InsensitiveLookup(df.rows[i].producto)
        /\ \A i \in 1..RowCount : \A j \in 1..RowCount :
              (DecidedByLookup(i) /\ DecidedByLookup(j)
                  /\ InsensitiveForm(df.rows[i].producto)
                        = InsensitiveForm(df.rows[j].producto))
                  => ResolvedId(i) = ResolvedId(j)

NoProductIdx == {i \in 1..RowCount : ProductUnmatched(df.rows[i])}

\* C13: a row whose product name is missing, or whose normalised name has no
\* match in the product map, gets no product id, is counted in
\* productos_no_mapeados and is in the rejected output, whatever the map
\* (a map with an empty or blank key included).
C13_UnmatchedProductIsRejected ==
    Returned =>
        /\ NoProductIdx \cap AcceptedIdx = {}
        /\ result.stats.productos_no_mapeados = Cardinality(NoProductIdx)
        /\ NoProductIdx \subseteq RejectedIdx

(***************************************************************************)
(* The statistics.                                                         *)
(***************************************************************************)
FailsDateIdx == {i \in 1..RowCount : DateUnresolved(df.rows[i])}

FailsQuantityIdx == {i \in 1..RowCount : NotPositive(df.rows[i].cantidad)}

FailsPriceIdx == {i \in 1..RowCount : NotPositive(df.rows[i].precio_unitario)}

\* The number of rules input row i fails.
RulesFailed(i) ==
    (IF DateUnresolved(df.rows[i]) THEN 1 ELSE 0)
        + (IF NotPositive(df.rows[i].cantidad) THEN 1 ELSE 0)
        + (IF NotPositive(df.rows[i].precio_unitario) THEN 1 ELSE 0)
        + (IF ProductUnmatched(df.rows[i]) THEN 1 ELSE 0)

\* C14: the rules do not short-circuit each other.  Each of the four counters
\* is the number of input rows failing that rule, whether or not the row fails
\* other rules too; a row failing several rules is once in the rejected output.
C14_CountersPerRule ==
    Returned =>
        /\ result.stats.fechas_invalidas = Cardinality(FailsDateIdx)
        /\ result.stats.cantidades_invalidas = Cardinality(FailsQuantityIdx)
        /\ result.stats.precios_invalidos = Cardinality(FailsPriceIdx)
        /\ result.stats.productos_no_mapeados = Cardinality(NoProductIdx)
        /\ \A i \in 1..RowCount :
              RulesFailed(i) >= 1 =>
                  Cardinality({k \in 1..Len(result.rejected_data) :
                                  result.rejected_data[k].index = i}) = 1

\* C14 witness: a row fails the quantity, the price and the product rule at
\* once, beside a row that fails none; each of the three counters counts it and
\* it is the one rejected row.
C14_Witness ==
    /\ Returned
    /\ RowCount = 2
    /\ RulesFailed(1) = 3
    /\ RulesFailed(2) = 0
    /\ result.stats.cantidades_invalidas = 1
    /\ result.stats.precios_invalidos = 1
    /\ result.stats.productos_no_mapeados = 1
    /\ result.rows_rejected = 1
    /\ RejectedIdx = {1}

(***************************************************************************)
(* Quantities and prices that are no positive number.                      *)
(***************************************************************************)
BadNumberIdx == FailsQuantityIdx \cup FailsPriceIdx

\* The batch without its row i.
WithoutRow(i) ==
    Frame([k \in 1..(RowCount - 1) |->
              IF k < i THEN df.rows[k] ELSE df.rows[k + 1]])

\* Where the row with index label j ended in the result res of a call.
ClassIn(res, j) ==
    IF \E k \in 1..Len(res.data) : res.data[k].index = j THEN "accepted"
    ELSE IF \E k \in 1..Len(res.rejected_data) : res.rejected_data[k].index = j
         THEN "rejected"
         ELSE "neither"

\* C15: a row whose quantity or price is no number or is <= 0 is counted under
\* its rule and ends in the rejected output; it does not make the call fail,
\* and every other row (other than a duplicate of it) ends where it ends when
\* the batch is transformed without that row.
C15_BadNumberIsLocal ==
    (pc # "ready" /\ RowCount >= 2) =>
        \A i \in BadNumberIdx :
            LET alone == transform_ventas(WithoutRow(i), productos_map)
            IN /\ alone.raised = "None" => result.raised = "None"
               /\ i \in RejectedIdx
               /\ i \in FailsQuantityIdx
                     => result.stats.cantidades_invalidas
                           = Cardinality(FailsQuantityIdx)
               /\ i \in FailsPriceIdx
                     => result.stats.precios_invalidos
                           = Cardinality(FailsPriceIdx)
               /\ \A j \in (1..RowCount) \ {i} :
                     KeyOf(j) # KeyOf(i)
                         => ClassIn(result, j)
                               = ClassIn(alone, IF j < i THEN j ELSE j - 1)

(***************************************************************************)
(* What the call leaves untouched.                                         *)
(***************************************************************************)
InputColumns ==
    {"fecha", "producto", "cantidad", "precio_unitario", "tienda", "vendedor"}

DerivedColumns == {"fecha_parsed", "producto_id", "total"}

\* C16: every row of the rejected output holds exactly the field values of its
\* input row as given (text not trimmed, the date as written, quantity and
\* price not coerced) and none of the derived fields.
C16_RejectedRowsAsGiven ==
    Returned =>
        \A k \in 1..Len(result.rejected_data) :
            /\ result.rejected_data[k].index \in 1..RowCount
            /\ result.rejected_data[k].row = df.rows[result.rejected_data[k].index]
            /\ DOMAIN result.rejected_data[k].row = InputColumns
            /\ DOMAIN result.rejected_data[k].row \cap DerivedColumns = {}

\* C16 witness: a rejected row whose product name is padded and whose quantity
\* is no number comes back with the padding and the quantity text.
C16_Witness ==
    /\ Returned
    /\ \E k \in 1..Len(result.rejected_data) :
          /\ result.rejected_data[k].row.producto = <<" ", "A", "b", " ">>
          /\ result.rejected_data[k].row.cantidad = <<"a", "b", "c">>
          /\ df.rows[result.rejected_data[k].index].producto = <<" ", "A", "b", " ">>

OutputColumns ==
    {"fecha", "producto_id", "cantidad", "precio_unitario", "total", "tienda",
     "vendedor"}

\* text is the date day written as YYYY-MM-DD: ten characters that read back,
\* as year, month and day in that order, to day.
IsIsoTextOf(text, day) ==
    /\ Len(text) = 10
    /\ day # NaT
    /\ strptime(text, OrderedFormats[1]) = day

\* The identifiers of the map keys that are the cleaned name in lower case
\* without leading and trailing blanks.
IdsForName(name) ==
    {productos_map[q][2] : q \in {q \in 1..Len(productos_map) :
        Strip(Lower(productos_map[q][1])) = Strip(Lower(clean_string(name)))}}

\* C19: for every accepted row the output fecha is the resolved date of the
\* input row written as YYYY-MM-DD, whatever format the input used;
\* producto_id is the identifier the product map gives for the normalised
\* name; and the row has exactly the columns fecha, producto_id, cantidad,
\* precio_unitario, total, tienda, vendedor.
C19_AcceptedRowShape ==
    Returned =>
        \A k \in 1..Len(result.data) :
            /\ IsIsoTextOf(result.data[k].fecha,
                           FirstParse(Strip(df.rows[result.data[k].index].fecha)))
            /\ result.data[k].producto_id
                  \in IdsForName(df.rows[result.data[k].index].producto)
            /\ DOMAIN result.data[k] \ {"index"} = OutputColumns

\* C19 witness: a row dated 15/01/2024 with the padded name ' Ab ' is accepted
\* with fecha 2024-01-15 and the identifier 7 of the key 'ab'.
C19_Witness ==
    /\ Returned
    /\ \E k \in 1..Len(result.data) :
          /\ df.rows[result.data[k].index].fecha
                = <<"1", "5", "/", "0", "1", "/", "2", "0", "2", "4">>
          /\ df.rows[result.data[k].index].producto = <<" ", "A", "b", " ">>
          /\ result.data[k].fecha
                = <<"2", "0", "2", "4", "-", "0", "1", "-", "1", "5">>
          /\ result.data[k].producto_id = 7

(***************************************************************************)
(* Row failures and the outcome of the call.                               *)
(***************************************************************************)
\* C20: failures of rows never make transform_ventas raise or report failure:
\* for every non-empty batch, a batch in which every row is rejected (every
\* date unresolved, say) included, the call returns a result whose success
\* flag is true.
C20_RowFailuresNeverRaise ==
    (pc # "ready" /\ RowCount >= 1) =>
        /\ pc = "returned"
        /\ result.raised = "None"
        /\ result.succes

(***************************************************************************)
(* Later duplicates that also fail a rule.                                 *)
(***************************************************************************)
InvalidDuplicateIdx == {i \in DuplicateIdx : FailsSomeRule(i)}

\* C21: a row that is a later duplicate of an earlier row and also fails a rule
\* is handled as a duplicate only: it is counted in duplicados_eliminados, it
\* is counted by none of the four rule counters and it is not in the rejected
\* output.
C21_InvalidDuplicateIsDuplicateOnly ==
    (Returned /\ InvalidDuplicateIdx # {}) =>
        /\ result.stats.duplicados_eliminados = Cardinality(DuplicateIdx)
        /\ InvalidDuplicateIdx \cap RejectedIdx = {}
        /\ result.stats.fechas_invalidas
              = Cardinality(FailsDateIdx \ DuplicateIdx)
        /\ result.stats.cantidades_invalidas
              = Cardinality(FailsQuantityIdx \ DuplicateIdx)
        /\ result.stats.precios_invalidos
              = Cardinality(FailsPriceIdx \ DuplicateIdx)
        /\ result.stats.productos_no_mapeados
              = Cardinality(NoProductIdx \ DuplicateIdx)

(***************************************************************************)
(* clean_string                                                            *)
(***************************************************************************)
\* What position k of text s contributes to the cleaned text: nothing for a
\* whitespace character, the character itself otherwise, preceded by one
\* blank when it starts a word that is not the first.
CleanPiece(s, k) ==
    IF s[k] \in Whitespace THEN <<>>
    ELSE IF /\ k > 1
            /\ s[k - 1] \in Whitespace
            /\ \E j \in 1..(k - 1) : s[j] \notin Whitespace
         THEN <<" ", s[k]>>
         ELSE <<s[k]>>

RECURSIVE CleanPieces(_, _)
CleanPieces(s, k) ==
    IF k > Len(s) THEN <<>> ELSE CleanPiece(s, k) \o CleanPieces(s, k + 1)

ExpectedClean(s) == IF s = NULL THEN <<>> ELSE CleanPieces(s, 1)

\* t has no whitespace at either end, and inside only single blanks.
IsTidy(t) ==
    /\ \A k \in 1..Len(t) : t[k] \in Whitespace => t[k] = " "
    /\ t # <<>> => t[1] # " " /\ t[Len(t)] # " "
    /\ \A k \in 1..(Len(t) - 1) : ~(t[k] = " " /\ t[k + 1] = " ")

\* C22: clean_string returns the empty text for a missing value and
\* otherwise the text without whitespace at its ends and with every inner
\* run of whitespace replaced by one blank; cleaning the cleaned text once
\* more returns it unchanged; the call returns for every input.
C22_CleanStringCollapsesAndIsIdempotent ==
    /\ cpc \in {"ready", "returned", "returned_again"}
    /\ cpc \in {"returned", "returned_again"} =>
          /\ clean_result = ExpectedClean(clean_value)
          /\ IsTidy(clean_result)
          /\ clean_value = NULL => clean_result = <<>>

C22_Witness ==
    /\ cpc = "returned_again"
    /\ clean_value = <<"a", " ", "\t", "B">>
    /\ clean_result = <<"a", " ", "B">>

(***************************************************************************)
(* load_to_supabase                                                        *)
(***************************************************************************)
LoadReturned == lpc = "returned"

LoadRecords == load_df.rows

LoadRequests == load_call.requests

RECURSIVE ConcatBatches(_)
ConcatBatches(reqs) ==
    IF reqs = <<>> THEN <<>> ELSE Head(reqs).batch \o ConcatBatches(Tail(reqs))

RECURSIVE RowsIn(_, _)
RowsIn(reqs, ok) ==
    IF reqs = <<>> THEN 0
    ELSE (IF Head(reqs).ok = ok THEN Len(Head(reqs).batch) ELSE 0)
         + RowsIn(Tail(reqs), ok)

\* C28: a call of load_to_supabase that returns has sent the records in
\* consecutive batches of at most batch_size records, every batch also after
\* a failed one; rows_loaded + rows_failed is the number of records, success
\* holds exactly when rows_failed = 0, and error is set exactly when success
\* is false; for an empty or absent frame the call returns success with
\* rows_loaded 0 and makes no request.
C28_LoadBatchesAndCounts ==
    /\ (load_df.is_none \/ LoadRecords = <<>>) /\ lpc # "ready" =>
          /\ LoadReturned
          /\ load_call.result.success
          /\ load_call.result.rows_loaded = 0
          /\ LoadRequests = <<>>
    /\ LoadReturned =>
          /\ ConcatBatches(LoadRequests) = LoadRecords
          /\ \A k \in 1..Len(LoadRequests) :
                Len(LoadRequests[k].batch) \in 1..batch_size
          /\ load_call.result.rows_loaded = RowsIn(LoadRequests, TRUE)
          /\ load_call.result.rows_failed = RowsIn(LoadRequests, FALSE)
          /\ load_call.result.rows_loaded + load_call.result.rows_failed
                = Len(LoadRecords)
          /\ load_call.result.success <=> load_call.result.rows_failed = 0
          /\ load_call.result.error # "None" <=> ~load_call.result.success

C28_Witness ==
    /\ LoadReturned
    /\ Len(LoadRecords) = 5 /\ batch_size = 2
    /\ Len(LoadRequests) = 3
    /\ ~LoadRequests[1].ok /\ LoadRequests[2].ok /\ LoadRequests[3].ok
    /\ load_call.result.rows_loaded = 3 /\ load_call.result.rows_failed = 2
    /\ ~load_call.result.success

(***************************************************************************)
(* run_pipeline                                                            *)
(***************************************************************************)
\* The names of the stage functions invoked so far, in order.
CalledFns == [k \in 1..Len(calls) |-> calls[k].fn]

Invoked(fn) == \E k \in 1..Len(calls) : calls[k].fn = fn

InvokedWith(fn, rows) == \E k \in 1..Len(calls) : calls[k] = Call(fn, rows)

PipelineEnded == ppc \in {"returned", "raised"}

\* The transform stage was entered with an empty batch.
TransformOnEmptyBatch == InvokedWith("transform_ventas", <<>>)

\* C23: when the transform stage is given an empty batch, run_pipeline
\* returns a PipelineResult with success false and an error message, and
\* neither the CSV writer nor load_to_supabase is invoked.
C23_TransformFailureIsReported ==
    TransformOnEmptyBatch =>
        /\ ppc = "returned"
        /\ pipeline_result.raised = "None"
        /\ ~pipeline_result.success
        /\ pipeline_result.error # "None"
        /\ ~Invoked("load_to_csv")
        /\ ~Invoked("load_to_supabase")

\* The transform stage returned a successful result.
TransformSucceeded ==
    ppc \in {"transformed", "saved", "loaded", "returned"} /\ transformation.succes

\* The CSV stage is over.
CsvStageDone == ppc \in {"saved", "loaded", "returned"} /\ transformation.succes

\* The load stage is over.
LoadStageDone == ppc \in {"loaded", "returned"} /\ transformation.succes

\* C24: with dry_run true run_pipeline never invokes load_to_supabase; the
\* load result it reports has success true and rows_loaded 0; the accepted
\* batch, and the rejected batch when it is not empty, is handed to the CSV
\* writer all the same.
C24_DryRunSkipsBackendLoad ==
    dry_run =>
        /\ ~Invoked("load_to_supabase")
        /\ CsvStageDone =>
              /\ InvokedWith("load_to_csv", transformation.data)
              /\ Len(transformation.rejected_data) > 0 =>
                    InvokedWith("load_to_csv", transformation.rejected_data)
        /\ LoadStageDone =>
              /\ load_result.success
              /\ load_result.rows_loaded = 0
        /\ ppc = "returned" /\ pipeline_result.success =>
              pipeline_result.load = <<LoadResult(TRUE, 0, 0, "None")>>

C24_Witness ==
    /\ dry_run
    /\ ppc = "returned"
    /\ pipeline_result.success
    /\ transformation.rows_output = 1
    /\ transformation.rows_rejected = 1
    /\ Len(calls) = 5
    /\ calls[4] = Call("load_to_csv", transformation.data)
    /\ calls[5] = Call("load_to_csv", transformation.rejected_data)

\* The place of a stage function in the order of the stages.
StageRank(fn) ==
    CASE fn = "extract_csv" -> 1
      [] fn = "extract_from_supabase" -> 2
      [] fn = "transform_ventas" -> 3
      [] fn = "load_to_csv" -> 4
      [] fn = "load_to_supabase" -> 5

\* The stage functions were invoked in stage order, none before the stage
\* before it, and only the CSV writer twice.
InStageOrder ==
    /\ calls # <<>> => StageRank(calls[1].fn) = 1
    /\ \A k \in 2..Len(calls) :
          \/ StageRank(calls[k].fn) = StageRank(calls[k - 1].fn) + 1
          \/ calls[k].fn = "load_to_csv" /\ calls[k - 1].fn = "load_to_csv"
    /\ Len(calls) <= 6

\* A PipelineResult that reports a failure before the transform stage.
IsEarlyFailure(res) ==
    /\ res.raised = "None"
    /\ ~res.success
    /\ res.error # "None"
    /\ res.transformation = <<>>
    /\ res.load = <<>>

ExtractFailed == Invoked("extract_csv") /\ ~extraction.success

FetchFailed == Invoked("extract_from_supabase") /\ ~productos_result.success

\* C29: the stages run in the order extract CSV, fetch products, transform,
\* write CSV, load; when extract_csv fails or the products cannot be fetched,
\* run_pipeline returns a PipelineResult with success false and an error
\* message, with transformation and load unset, and neither transform_ventas
\* nor a load function is invoked.
C29_StagesInOrderAndEarlyFailure ==
    /\ InStageOrder
    /\ ExtractFailed =>
          /\ ppc = "returned"
          /\ IsEarlyFailure(pipeline_result)
          /\ CalledFns = <<"extract_csv">>
    /\ FetchFailed =>
          /\ ppc = "returned"
          /\ IsEarlyFailure(pipeline_result)
          /\ CalledFns = <<"extract_csv", "extract_from_supabase">>

C29_Witness ==
    /\ FetchFailed
    /\ input_file.kind = "csv" /\ Len(input_file.rows) = 2
    /\ ppc = "returned"
    /\ pipeline_result.extraction = <<extraction>>

\* C30: when the transform stage succeeds, run_pipeline ends by returning a
\* PipelineResult with success true, whatever was rejected and whatever the
\* load reported; the rejected rows are handed to the CSV writer exactly
\* when there are any.
C30_SuccessDespiteRejectionsAndLoadFailure ==
    TransformSucceeded =>
        /\ ppc = "returned" =>
              /\ pipeline_result.raised = "None"
              /\ pipeline_result.success
              /\ pipeline_result.load = <<load_result>>
        /\ CsvStageDone =>
              (InvokedWith("load_to_csv", transformation.rejected_data)
                  /\ Len(SelectSeq(CalledFns, LAMBDA fn : fn = "load_to_csv")) = 2)
              <=> Len(transformation.rejected_data) > 0
        /\ CsvStageDone /\ transformation.rejected_data = <<>> =>
              Len(SelectSeq(CalledFns, LAMBDA fn : fn = "load_to_csv")) = 1

C30_Witness ==
    /\ ppc = "returned"
    /\ pipeline_result.success
    /\ ~dry_run
    /\ ~load_result.success
    /\ load_result.rows_failed = 1
    /\ transformation.rows_rejected = 1

(***************************************************************************)
(* ProductoRepository                                                      *)
(***************************************************************************)
\* The ids of the rows in the data of a result.
IdsIn(res) == {res.data[k].id : k \in 1..Len(res.data)}

\* The products get_activos returns for a table.
ActivosIds(table) == IdsIn(get_activos(table, FALSE).result)

\* The products some listing (get_activos, get_by_categoria, search) returns.
ListedIds(table) ==
    ActivosIds(table)
    \cup UNION {IdsIn(get_by_categoria(table, c, FALSE).result) : c \in ProductIds}
    \cup UNION {IdsIn(search(table, SearchTerms[t], FALSE).result) :
                    t \in 1..Len(SearchTerms)}

IsStored(table, id) == get_by_id(table, id, FALSE).result.succes

\* This step completes a call op(id) of client 1, and the call succeeded.
SucceedsNow(op, id) ==
    /\ returned'[1].tick # returned[1].tick
    /\ returned'[1].op = op
    /\ returned'[1].id = id
    /\ returned'[1].result.succes

\* C25: once soft_delete(id) has succeeded the product is in no listing
\* (get_activos, get_by_categoria, search); a stored product that is not
\* listed comes back into a listing only by a restore(id) that succeeds, and
\* after restore(id) on the stored product get_activos returns it again; a
\* product stops being stored only by delete(id).
C25_SoftDeleteHidesUntilRestore ==
    [][\A id \in ProductIds :
          /\ SucceedsNow("soft_delete", id) => id \notin ListedIds(productos')
          /\ (/\ IsStored(productos, id)
              /\ id \notin ActivosIds(productos)
              /\ id \in ListedIds(productos'))
                => SucceedsNow("restore", id)
          /\ (SucceedsNow("restore", id) /\ IsStored(productos, id))
                => id \in ActivosIds(productos')
          /\ (SucceedsNow("soft_delete", id) /\ IsStored(productos, id))
                => IsStored(productos', id)
          /\ (IsStored(productos, id) /\ ~IsStored(productos', id))
                => SucceedsNow("delete", id)]_vars

C25_Witness ==
    /\ returned[1].op = "soft_delete"
    /\ returned[1].id = 1
    /\ returned[1].result.succes
    /\ returned[1].result.count = 1
    /\ IsStored(productos, 1)
    /\ 1 \notin ListedIds(productos)
    /\ ActivosIds(productos) = {2}

\* This step completes a call of update_stock or ajustar_stock of client 1
\* whose target stock is negative.
NegativeTargetNow ==
    /\ returned'[1].tick # returned[1].tick
    /\ \/ returned'[1].op = "update_stock" /\ returned'[1].arg < 0
       \/ /\ returned'[1].op = "ajustar_stock"
          /\ rpc[1] = "read"
          /\ productos[returned'[1].id].stock + returned'[1].arg < 0

\* C26: with calls that follow one another the stored stock of a product is
\* never negative; a call of update_stock or ajustar_stock whose target is
\* negative returns a failed result with an error message, leaves the table
\* as it was and sends no update to the backend.
C26_StockNeverNegative ==
    [][/\ \A id \in ProductIds : productos'[id].stock >= 0
       /\ NegativeTargetNow =>
             /\ ~returned'[1].result.succes
             /\ returned'[1].result.error # "None"
             /\ productos' = productos
             /\ \A k \in 1..Len(returned'[1].requests) :
                   returned'[1].requests[k].verb # "update"]_vars

C26_Witness ==
    /\ returned[1].op = "ajustar_stock"
    /\ returned[1].id = 1
    /\ returned[1].arg = 0 - 1
    /\ productos[1].stored /\ productos[1].stock = 0
    /\ ~returned[1].result.succes
    /\ returned[1].result.error = "Stock insuficiente"
    /\ returned[1].requests = <<Request("select", 1)>>

\* Both clients have completed their ajustar_stock call with success.
BothAdjusted ==
    \A p \in Clients :
        /\ rpc[p] = "idle"
        /\ returned[p].op = "ajustar_stock"
        /\ returned[p].result.succes

\* C27: when two ajustar_stock calls on one product both succeed, however
\* their reads and writes interleave, the stored stock ends as the initial
\* stock plus both adjustments, and is not negative.
C27_ConcurrentAdjustmentsAddUp ==
    BothAdjusted =>
        /\ productos[1].stock =
              stock_at_start + returned[1].arg + returned[2].arg
        /\ productos[1].stock >= 0

====
